---- MODULE Spec2Model ----
(***************************************************************************)
(* A model of the sampling engine of the Linux stat sender                 *)
(* (src/LinuxPC/stat_sender_v1.py): the stateful samplers, the snapshot    *)
(* assembler and the main loop.                                            *)
(*                                                                         *)
(* Conventions                                                             *)
(*  - Python None is the empty tuple <<>> for optional numbers and records *)
(*    (Some(v) is <<v>>), and the string NoneStr for optional strings.     *)
(*  - Device names are sequences of characters, so that str.startswith,    *)
(*    str.lstrip and indexing are computed, not assumed.                   *)
(*  - Byte counts of block devices are counted in MiB (the model's unit),  *)
(*    so 1024**3 bytes is GiB = 1024 units; all arithmetic on them is the  *)
(*    code's arithmetic on multiples of 1 MiB.                             *)
(*  - round(x, k) is round-half-to-even on the exact quotient, the result  *)
(*    kept as an integer number of 10^-k units (tenths, hundredths).       *)
(***************************************************************************)
EXTENDS Integers, Sequences, FiniteSets, TLC

VARIABLES
    \* wall clock read by time.time(), in seconds
    now,
    \* get_disk_stats: one call in progress
    dk_pc, lines, physical_disks, dk_idx, disks_result, contrib, df_log,
    \* get_cpu_power: the module globals, and a record of the last call
    last_cpu_energy, last_cpu_energy_time, power_call,
    \* get_network_stats: the module globals, and a record of the last call
    last_net_stats, last_net_time, net_call, net_pc,
    \* get_current_game: the module globals, the last strong detection and a
    \* record of the last call
    cached_game_name, cached_game_time, cached_game_appid, steam_paths,
    last_detect, game_call, game_pc,
    \* get_cpu_name, get_gpu_name: the memo globals, the number of reads of the
    \* source, the first name resolved and a record of the last call
    cached_cpu_name, cached_gpu_name, cpu_reads, gpu_reads, cpu_first, gpu_first,
    name_call,
    \* main: where the loop is, the tick, the sampler collect_stats is at, the
    \* snapshot under construction, the ticks posted and the last interrupt
    main_pc, tick, stage, snapshot, transmitted, consecutive_failures, interrupt,
    \* send_stats: a record of the last call
    send_call,
    \* get_gpu_stats: whether a call is in progress, the hwmon listing it scans
    \* and a record of the last call
    gpu_pc, gpu_hwmon, gpu_call, gpu_section,
    \* the display server: its clock, the steps and the posts counted, the
    \* dict served, where receive_stats is, the two caches, the upstream
    \* requests made and the last response of get_stats
    srv_now, srv_ticks, srv_posts, latest_stats, post_pc, game_name_cache,
    player_count_cache, name_requests, player_requests, get_response

diskVars == <<dk_pc, lines, physical_disks, dk_idx, disks_result, contrib, df_log>>
powerVars == <<last_cpu_energy, last_cpu_energy_time, power_call>>
netVars == <<last_net_stats, last_net_time, net_call, net_pc>>
gameVars == <<cached_game_name, cached_game_time, cached_game_appid, steam_paths,
              last_detect, game_call, game_pc>>
nameVars == <<cached_cpu_name, cached_gpu_name, cpu_reads, gpu_reads, cpu_first, gpu_first,
              name_call>>
mainVars == <<main_pc, tick, stage, snapshot, transmitted, consecutive_failures, interrupt,
              send_call>>
gpuVars == <<gpu_pc, gpu_hwmon, gpu_call, gpu_section>>
serverVars == <<srv_now, srv_ticks, srv_posts, latest_stats, post_pc, game_name_cache,
                player_count_cache, name_requests, player_requests, get_response>>
allSamplerVars == <<diskVars, powerVars, netVars, gameVars, nameVars, mainVars, gpuVars,
                    serverVars>>
vars == <<now, allSamplerVars>>

\* what the actions of one sampler leave alone
exceptDisk == <<powerVars, netVars, gameVars, nameVars, mainVars, gpuVars, serverVars>>
exceptPower == <<diskVars, netVars, gameVars, nameVars, mainVars, gpuVars, serverVars>>
exceptNet == <<diskVars, powerVars, gameVars, nameVars, mainVars, gpuVars, serverVars>>
exceptGame == <<diskVars, powerVars, netVars, nameVars, mainVars, gpuVars, serverVars>>
exceptName == <<diskVars, powerVars, netVars, gameVars, mainVars, gpuVars, serverVars>>
exceptGpu == <<diskVars, powerVars, netVars, gameVars, nameVars, mainVars, serverVars>>
exceptMain == <<diskVars, powerVars, netVars, gameVars, nameVars, gpuVars, serverVars>>
exceptServer == <<now, diskVars, powerVars, netVars, gameVars, nameVars, mainVars, gpuVars>>

(***************************************************************************)
(* Bounds of the model                                                     *)
(***************************************************************************)
MaxLines == 3
\* the clock stops at MaxTime; between two sampler calls 1..MaxStep seconds pass
MaxTime == 6
MaxStep == 2
\* the game detector is followed until MaxGameTime, past the TTL of a title
MaxGameTime == 9
\* reads of /proc/cpuinfo and runs of lspci that are followed
MaxReads == 3
\* ticks of the main loop that are followed
MaxTicks == 3
\* entries of /sys/class/hwmon that are listed
MaxHwmon == 2
\* the clock steps and the posts followed on the display server
MaxSrvTicks == 2
MaxPosts == 2

(***************************************************************************)
(* Helpers: Python built-ins computed on the model's values                *)
(***************************************************************************)
Max(a, b) == IF a >= b THEN a ELSE b

\* round(n/d, k) for d > 0, with n/d already scaled by 10^k: half to even
RoundHalfEven(n, d) ==
    LET q == n \div d
        r == n % d
    IN  IF 2 * r < d THEN q
        ELSE IF 2 * r > d THEN q + 1
        ELSE IF q % 2 = 0 THEN q ELSE q + 1

\* str.startswith
StartsWith(s, p) ==
    /\ Len(p) <= Len(s)
    /\ SubSeq(s, 1, Len(p)) = p

Digits == {"0", "1", "2", "3", "4", "5", "6", "7", "8", "9"}

\* str.isdigit on one character
IsDigit(c) == c \in Digits

\* str.lstrip(chars)
RECURSIVE LStrip(_, _)
LStrip(s, chars) ==
    IF s # <<>> /\ Head(s) \in chars THEN LStrip(Tail(s), chars) ELSE s

\* str.split(sep) on a sequence of characters, for whitespace: runs of the
\* separator are skipped and no empty token is produced
RECURSIVE SplitWs(_, _, _)
SplitWs(s, cur, acc) ==
    IF s = <<>> THEN (IF cur = <<>> THEN acc ELSE Append(acc, cur))
    ELSE IF Head(s) = " "
         THEN SplitWs(Tail(s), <<>>, IF cur = <<>> THEN acc ELSE Append(acc, cur))
         ELSE SplitWs(Tail(s), Append(cur, Head(s)), acc)

RECURSIVE SeqSum(_)
SeqSum(s) == IF s = <<>> THEN 0 ELSE Head(s) + SeqSum(Tail(s))

\* the sequences over S of length at most n
SeqsUpTo(S, n) == UNION {[1..k -> S] : k \in 0..n}

(***************************************************************************)
(* get_disk_stats (DiskAggregator)                                         *)
(***************************************************************************)
\* the four tree glyphs and the blank that lstrip removes (line 435, 462)
BoxUpRight == "<U+2514>"
BoxVertRight == "<U+251C>"
BoxHoriz == "<U+2500>"
BoxVert == "<U+2502>"
TreeChars == {BoxUpRight, BoxVertRight, BoxHoriz, BoxVert, " "}

\* 1024**3 bytes in the model's unit (MiB)
GiB == 1024

\* device names of the listings the model feeds
N_sda == <<"s", "d", "a">>
N_sda1 == <<"s", "d", "a", "1">>
N_sdb == <<"s", "d", "b">>
N_sdb1 == <<"s", "d", "b", "1">>
N_zram0 == <<"z", "r", "a", "m", "0">>
N_luks == <<"l", "u", "k", "s">>
N_nvme0n1 == <<"n", "v", "m", "e", "0", "n", "1">>
N_nvme0n10 == N_nvme0n1 \o <<"0">>
N_nvme0n10p1 == N_nvme0n10 \o <<"p", "1">>

\* one record of `lsblk -b -o NAME,SIZE,TYPE,MOUNTPOINT -n`: the NAME column
\* as printed (tree glyphs included), SIZE, TYPE and MOUNTPOINT ("" when the
\* column is empty)
LsblkRecords == {
    [rawname |-> N_sda, size |-> 100 * GiB, type |-> "disk", mount |-> ""],
    [rawname |-> <<BoxVertRight, BoxHoriz>> \o N_sda1, size |-> 50 * GiB,
     type |-> "part", mount |-> "/"],
    [rawname |-> <<BoxUpRight, BoxHoriz>> \o N_sda1, size |-> 50 * GiB,
     type |-> "part", mount |-> "/mnt/bind"],
    [rawname |-> N_sdb, size |-> 0, type |-> "disk", mount |-> ""],
    [rawname |-> <<BoxUpRight, BoxHoriz>> \o N_sdb1, size |-> 2 * GiB,
     type |-> "part", mount |-> "/data"],
    [rawname |-> <<BoxUpRight, BoxHoriz>> \o N_sdb1, size |-> 2 * GiB,
     type |-> "part", mount |-> ""],
    [rawname |-> N_zram0, size |-> 8 * GiB, type |-> "disk", mount |-> "[SWAP]"],
    [rawname |-> <<BoxVert, " ", BoxUpRight, BoxHoriz>> \o N_luks, size |-> 50 * GiB,
     type |-> "crypt", mount |-> "/home"],
    [rawname |-> N_nvme0n1, size |-> 500 * GiB, type |-> "disk", mount |-> ""],
    [rawname |-> N_nvme0n10, size |-> 200 * GiB, type |-> "disk", mount |-> ""],
    [rawname |-> <<BoxUpRight, BoxHoriz>> \o N_nvme0n10p1, size |-> 200 * GiB,
     type |-> "part", mount |-> "/nv"]
}

\* what `df -B1 <mountpoint>` can give: a failure (non-zero exit, timeout,
\* short or unparsable output) or the used bytes of its third column
DfFail == -1
DfOutcomes == {DfFail, 10 * GiB, 256}

\* line.split(): the whitespace-separated tokens of a record, each tagged
\* with the column it came from; the NAME column splits where it has a blank
Parts(line) ==
    LET nameToks == SplitWs(line.rawname, <<>>, <<>>)
        names == [i \in 1..Len(nameToks) |-> [col |-> "name", chars |-> nameToks[i], num |-> 0, str |-> ""]]
        rest == <<[col |-> "size", chars |-> <<>>, num |-> line.size, str |-> ""],
                  [col |-> "type", chars |-> <<>>, num |-> 0, str |-> line.type]>>
        mnt == IF line.mount = "" THEN <<>>
               ELSE <<[col |-> "mount", chars |-> <<>>, num |-> 0, str |-> line.mount]>>
    IN  names \o rest \o mnt

\* line.split(maxsplit=3): the first three tokens, the remainder as one
PartsMax3(line) ==
    LET p == Parts(line)
    IN  IF Len(p) <= 4 THEN p
        ELSE SubSeq(p, 1, 3) \o <<[col |-> "rest", chars |-> <<>>, num |-> 0, str |-> "<rest>"]>>

\* int(token) raises ValueError unless the token is a number
IntRaises(tok) == tok.col # "size"

\* token == 'literal' for a TYPE comparison
TokIs(tok, s) == tok.col = "type" /\ tok.str = s

\* parts[0].strip().lstrip(tree characters)
DeviceName(tok) == LStrip(tok.chars, TreeChars)

Zram == <<"z", "r", "a", "m">>
Swap == <<"s", "w", "a", "p">>

\* name.startswith('zram') or name.startswith('swap')
IsZramOrSwap(name) == StartsWith(name, Zram) \/ StartsWith(name, Swap)

\* the index of key `name` in the insertion-ordered dict, 0 if absent
DictIndex(d, name) ==
    IF \E i \in 1..Len(d) : d[i].name = name
    THEN CHOOSE i \in 1..Len(d) : d[i].name = name
    ELSE 0

\* physical_disks[name] = {...}: a new key is appended, an existing key keeps
\* its place and gets the new value
DictPut(d, rec) ==
    LET i == DictIndex(d, rec.name)
    IN  IF i = 0 THEN Append(d, rec) ELSE [d EXCEPT ![i] = rec]

\* the entry seeded for a disk record (lines 445-453)
NewDisk(name, size_bytes) ==
    [name |-> name,
     total_bytes |-> size_bytes,
     used_bytes |-> 0,
     total_gb |-> RoundHalfEven(size_bytes * 10, GiB),
     used_gb |-> 0,
     percent |-> 0,
     partitions_seen |-> {}]

\* the first pass raises (int() of a token that is no number) on some line
FirstPassRaises(ls) ==
    \E i \in 1..Len(ls) :
        LET parts == Parts(ls[i]) IN Len(parts) >= 3 /\ IntRaises(parts[2])

\* line 444: which records become aggregation targets
IsDiskType(tok) == TokIs(tok, "disk")

\* first pass (lines 430-453): the physical disks, in insertion order
RECURSIVE FirstPass(_, _)
FirstPass(ls, acc) ==
    IF ls = <<>> THEN acc
    ELSE LET parts == Parts(Head(ls))
             name == DeviceName(parts[1])
         IN  IF Len(parts) >= 3 /\ ~IsZramOrSwap(name) /\ IsDiskType(parts[3])
             THEN FirstPass(Tail(ls), DictPut(acc, NewDisk(name, parts[2].num)))
             ELSE FirstPass(Tail(ls), acc)

\* lines 475-477: disk_name is a parent candidate of partition name
ParentMatches(name, disk_name) ==
    /\ StartsWith(name, disk_name)
    /\ LET remainder == SubSeq(name, Len(disk_name) + 1, Len(name))
       IN  remainder # <<>> /\ (IsDigit(remainder[1]) \/ remainder[1] = "p")

\* lines 473-479: the first disk in dict order that matches; 0 when none
ParentDisk(name, pd) ==
    IF \E i \in 1..Len(pd) : ParentMatches(name, pd[i].name)
    THEN CHOOSE i \in 1..Len(pd) :
            /\ ParentMatches(name, pd[i].name)
            /\ \A j \in 1..(i - 1) : ~ParentMatches(name, pd[j].name)
    ELSE 0

AlreadyCounted_NoCheck(name, disk) == FALSE

\* line 487: name in physical_disks[parent_disk]['partitions_seen']
AlreadyCounted(name, disk) == name \in disk.partitions_seen

\* line 469: the record is skipped unless it is a mounted partition
IsMountedPart(parts) ==
    /\ TokIs(parts[3], "part")
    /\ parts[4].str # ""

DevicePrefix == <<"/", "d", "e", "v", "/">>

FinalFields_KeepSeen(disk) ==
    [device |-> DevicePrefix \o disk.name,
     name |-> disk.name,
     total_gb |-> disk.total_gb,
     used_gb |-> RoundHalfEven(disk.used_bytes * 10, GiB),
     percent |-> IF disk.total_bytes > 0
                 THEN RoundHalfEven(disk.used_bytes * 1000, disk.total_bytes)
                 ELSE 0,
     partitions_seen |-> disk.partitions_seen]

\* lines 513-532: the output entry of one disk
FinalFields(disk) ==
    [device |-> DevicePrefix \o disk.name,
     name |-> disk.name,
     total_gb |-> disk.total_gb,
     used_gb |-> RoundHalfEven(disk.used_bytes * 10, GiB),
     percent |-> IF disk.total_bytes > 0
                 THEN RoundHalfEven(disk.used_bytes * 1000, disk.total_bytes)
                 ELSE 0]

\* the state of get_disk_stats between two calls
DiskIdle ==
    /\ dk_pc = "idle"
    /\ lines = <<>>
    /\ physical_disks = <<>>
    /\ dk_idx = 0
    /\ contrib = <<>>
    /\ df_log = <<>>

\* lines 414-421, 535-539: lsblk cannot be run, or times out: the except
\* branch returns []
LsblkRaises ==
    /\ dk_pc = "idle"
    /\ dk_pc' = "done"
    /\ disks_result' = <<>>
    /\ UNCHANGED <<lines, physical_disks, dk_idx, contrib, df_log, now, exceptDisk>>

\* line 421: lsblk exits non-zero: disks stays empty
LsblkNonZero ==
    /\ dk_pc = "idle"
    /\ dk_pc' = "done"
    /\ disks_result' = <<>>
    /\ UNCHANGED <<lines, physical_disks, dk_idx, contrib, df_log, now, exceptDisk>>

\* lines 421-455: lsblk succeeds with listing ls; the first pass runs over it
\* and either raises (the function returns []) or leaves the physical disks
LsblkOk ==
    /\ dk_pc = "idle"
    /\ \E ls \in SeqsUpTo(LsblkRecords, MaxLines) :
        /\ lines' = ls
        /\ IF FirstPassRaises(ls)
           THEN /\ dk_pc' = "done"
                /\ disks_result' = <<>>
                /\ UNCHANGED <<physical_disks, dk_idx>>
           ELSE /\ dk_pc' = "pass2"
                /\ physical_disks' = FirstPass(ls, <<>>)
                /\ dk_idx' = 1
                /\ UNCHANGED disks_result
    /\ UNCHANGED <<contrib, df_log, now, exceptDisk>>

\* lines 458-510: the second pass on record dk_idx
SecondPassLine ==
    /\ dk_pc = "pass2"
    /\ dk_idx <= Len(lines)
    /\ dk_idx' = dk_idx + 1
    /\ LET parts == PartsMax3(lines[dk_idx])
           name == DeviceName(parts[1])
           p == ParentDisk(name, physical_disks)
       IN  IF Len(parts) < 4 \/ ~IsMountedPart(parts) \/ p = 0
           THEN UNCHANGED <<physical_disks, contrib, df_log>>
           ELSE IF AlreadyCounted(name, physical_disks[p])
           THEN UNCHANGED <<physical_disks, contrib, df_log>>
           ELSE \E out \in DfOutcomes :
                \* line 492 marks the partition, then lines 495-510 query df
                LET seen == physical_disks[p].partitions_seen \cup {name}
                    used == physical_disks[p].used_bytes
                IN  /\ df_log' = Append(df_log, [mount |-> parts[4].str, part |-> name, out |-> out])
                    /\ IF out = DfFail
                       THEN /\ physical_disks' = [physical_disks EXCEPT ![p].partitions_seen = seen]
                            /\ UNCHANGED contrib
                       ELSE /\ physical_disks' = [physical_disks EXCEPT
                                                     ![p].partitions_seen = seen,
                                                     ![p].used_bytes = used + out]
                            /\ contrib' = Append(contrib,
                                   [part |-> name, disk |-> physical_disks[p].name, used |-> out])
    /\ UNCHANGED <<dk_pc, lines, disks_result, now, exceptDisk>>

\* lines 512-534: the final pass and the return
FinalPass ==
    /\ dk_pc = "pass2"
    /\ dk_idx > Len(lines)
    /\ dk_pc' = "done"
    /\ disks_result' = [i \in 1..Len(physical_disks) |-> FinalFields(physical_disks[i])]
    /\ UNCHANGED <<lines, physical_disks, dk_idx, contrib, df_log, now, exceptDisk>>

\* the next tick's call starts from fresh locals
DiskReturn ==
    /\ dk_pc = "done"
    /\ dk_pc' = "idle"
    /\ lines' = <<>>
    /\ physical_disks' = <<>>
    /\ dk_idx' = 0
    /\ contrib' = <<>>
    /\ df_log' = <<>>
    /\ disks_result' = <<>>
    /\ UNCHANGED <<now, exceptDisk>>


InitDisk ==
    /\ DiskIdle
    /\ disks_result = <<>>

NextDisk ==
    \/ LsblkRaises
    \/ LsblkNonZero
    \/ LsblkOk
    \/ SecondPassLine
    \/ FinalPass
    \/ DiskReturn

(***************************************************************************)
(* The wall clock                                                          *)
(***************************************************************************)
\* time.time() is the wall clock: it normally advances between two sampler
\* calls (each call below reads now + d, d >= 1), and it can be set back
ClockStepBack ==
    /\ now > 1
    /\ \E k \in 1..MaxStep : k < now /\ now' = now - k
    /\ UNCHANGED allSamplerVars

(***************************************************************************)
(* get_cpu_power (CpuSampler, energy-counter delta)                        *)
(***************************************************************************)
\* readings of the zenergy package counter, in microjoules
EnergyVals == {0, 40000, 1230000, 500000000, 620000000}

\* readings of the RAPL power_uw attribute, in microwatts
RaplVals == {0, 15520000}

\* energy_delta / 1_000_000 is joules; tenths of a watt are delta / 100000 / dt
MicroPerUnit == 1000000
MicroPerTenth == 100000

\* the upper limit of the sanity check, in watts (line 249)
MaxWatts == 500

\* x / 1e6 / t < w for t > 0 and an integer w: x < w * t * 1e6, which for
\* integers is floor(x / 1e6) < w * t
WattsBelow(x, t, w) == (x \div MicroPerUnit) < w * t

PowerInRange_Inclusive(energy_delta, time_delta) ==
    IF time_delta > 0
    THEN energy_delta >= 0 /\ WattsBelow(energy_delta - 1, time_delta, MaxWatts)
    ELSE energy_delta <= 0 /\ WattsBelow(-energy_delta - 1, -time_delta, MaxWatts)

\* line 249: 0 < power_w < 500, with power_w = energy_delta / 1e6 / time_delta
\* and time_delta # 0 (a negative time_delta flips the sign of power_w)
PowerInRange(energy_delta, time_delta) ==
    IF time_delta > 0
    THEN energy_delta > 0 /\ WattsBelow(energy_delta, time_delta, MaxWatts)
    ELSE energy_delta < 0 /\ WattsBelow(-energy_delta, -time_delta, MaxWatts)

\* line 250: round(power_w, 1), in tenths of a watt, for a value in range
RoundPower(energy_delta, time_delta) ==
    IF time_delta > 0
    THEN RoundHalfEven(energy_delta, MicroPerTenth * time_delta)
    ELSE RoundHalfEven(-energy_delta, MicroPerTenth * (-time_delta))

\* lines 245-246 and 253-254: the sample is stored before the sanity check
\* and again on the fall-through, so it is stored whether or not the power
\* value is accepted
StoreSample(accepted, old, new) == new

NoCall == [kind |-> "none", e_read |-> 0, t_read |-> 0, prev_e |-> <<>>, prev_t |-> <<>>, ret |-> 0]

InitPower ==
    /\ last_cpu_energy = <<>>
    /\ last_cpu_energy_time = <<>>
    /\ power_call = NoCall

\* lines 224-255: a zenergy sensor with a package/socket label is found and
\* its counter is read as current_energy at current_time
CpuPowerZenergy ==
    \E d \in 1..MaxStep, current_energy \in EnergyVals :
        LET current_time == now + d
            call == [kind |-> "zenergy", e_read |-> current_energy, t_read |-> current_time,
                     prev_e |-> last_cpu_energy, prev_t |-> last_cpu_energy_time, ret |-> 0]
        IN  /\ current_time <= MaxTime
            /\ now' = current_time
            /\ IF last_cpu_energy # <<>> /\ last_cpu_energy_time # <<>>
               THEN LET time_delta == current_time - last_cpu_energy_time[1]
                        energy_delta == current_energy - last_cpu_energy[1]
                    IN  IF time_delta = 0
                        THEN \* line 243 raises ZeroDivisionError; line 263 catches it
                             /\ power_call' = [call EXCEPT !.kind = "zerodiv"]
                             /\ UNCHANGED <<last_cpu_energy, last_cpu_energy_time>>
                        ELSE LET ok == PowerInRange(energy_delta, time_delta)
                             IN  /\ last_cpu_energy' = StoreSample(ok, last_cpu_energy, <<current_energy>>)
                                 /\ last_cpu_energy_time' = StoreSample(ok, last_cpu_energy_time, <<current_time>>)
                                 /\ power_call' = [call EXCEPT !.ret =
                                        IF ok THEN RoundPower(energy_delta, time_delta) ELSE 0]
               ELSE \* lines 252-255: first sample
                    /\ last_cpu_energy' = <<current_energy>>
                    /\ last_cpu_energy_time' = <<current_time>>
                    /\ power_call' = call
    /\ UNCHANGED exceptPower

\* lines 226-237, 263-266: the sensor tree or the counter cannot be read or
\* parsed; the except branch returns 0.0
CpuPowerRaises ==
    /\ \E d \in 1..MaxStep :
        /\ now + d <= MaxTime
        /\ now' = now + d
    /\ power_call' = [NoCall EXCEPT !.kind = "raise"]
    /\ UNCHANGED <<last_cpu_energy, last_cpu_energy_time, exceptPower>>

\* lines 257-261, 266: no zenergy sensor; the RAPL reading if the file exists
\* (present = TRUE), else 0.0
CpuPowerRapl ==
    /\ \E d \in 1..MaxStep :
        /\ now + d <= MaxTime
        /\ now' = now + d
    /\ \E present \in BOOLEAN, power_uw \in RaplVals :
        power_call' = IF present
                      THEN [NoCall EXCEPT !.kind = "rapl", !.ret = RoundHalfEven(power_uw, MicroPerTenth)]
                      ELSE [NoCall EXCEPT !.kind = "nosensor"]
    /\ UNCHANGED <<last_cpu_energy, last_cpu_energy_time, exceptPower>>

NextPower ==
    \/ CpuPowerZenergy
    \/ CpuPowerRaises
    \/ CpuPowerRapl
    \/ ClockStepBack

(***************************************************************************)
(* get_network_stats (NetworkSampler)                                      *)
(***************************************************************************)
\* interface names, as sequences of characters
If_lo == <<"l", "o">>
If_eth0 == <<"e", "t", "h", "0">>
If_wlan0 == <<"w", "l", "a", "n", "0">>
If_wlp2s0 == <<"w", "l", "p", "2", "s", "0">>
NoInterface == <<>>

\* the value of an optional string field that is None
NoneStr == "<None>"

NetRow(name, recv, sent) == [iface |-> name, recv |-> recv, sent |-> sent]

\* contents of /proc/net/dev (after its two header lines) the model feeds:
\* each a sequence of rows (interface, received bytes, sent bytes)
NetDevSamples == {
    <<NetRow(If_lo, 700, 700)>>,
    <<NetRow(If_lo, 700, 700), NetRow(If_eth0, 1000, 500)>>,
    <<NetRow(If_lo, 900, 900), NetRow(If_eth0, 2000, 1500)>>,
    <<NetRow(If_lo, 900, 900), NetRow(If_eth0, 8292, 1500)>>,
    <<NetRow(If_eth0, 0, 0), NetRow(If_wlp2s0, 5244880, 2000)>>,
    <<NetRow(If_eth0, 1000, 500), NetRow(If_wlan0, 5243880, 5243380)>>
}

\* `iw dev <if> link`: it raises (missing, timeout), exits non-zero, or
\* prints the tx and rx bitrates (tenths of MBit/s; <<>> when a line is absent)
IwOutcomes == {
    [kind |-> "raise", tx |-> <<>>, rx |-> <<>>],
    [kind |-> "nonzero", tx |-> <<>>, rx |-> <<>>],
    [kind |-> "ok", tx |-> <<8667>>, rx |-> <<6500>>]
}

\* /sys/class/net/<if>/speed: unreadable, or an integer (Mbit/s, -1 when the
\* link is down)
EthSpeedOutcomes == {
    [kind |-> "raise", speed |-> 0],
    [kind |-> "ok", speed |-> -1],
    [kind |-> "ok", speed |-> 1000]
}

\* `ping -c 1 -W 1 8.8.8.8`: it raises (missing, timeout), exits non-zero,
\* exits 0 with output line 634 cannot parse (no time= line, or a time= that
\* float() or the split rejects), or prints time=<ms> (tenths of a millisecond)
PingOutcomes == {
    [kind |-> "raise", time |-> 0],
    [kind |-> "nonzero", time |-> 0],
    [kind |-> "unparsable", time |-> 0],
    [kind |-> "ok", time |-> 123]
}

\* 1024 * 1024 bytes (lines 623-624) and 1024 * 1024 * 1024 bytes (644-645)
BytesPerMiB == 1048576
BytesPerGiB == 1073741824

NetPassStart == [bytes_recv |-> 0, bytes_sent |-> 0, active |-> NoInterface]

\* lines 561-574: the pass over the rows: the running sums and the active
\* interface
RECURSIVE NetPass(_, _)
NetPass(rows, acc) ==
    IF rows = <<>> THEN acc
    ELSE LET r == Head(rows)
         IN  IF r.iface = If_lo THEN NetPass(Tail(rows), acc)
             ELSE LET bytes_recv == acc.bytes_recv + r.recv
                      bytes_sent == acc.bytes_sent + r.sent
                      active == IF (r.recv > 0 \/ r.sent > 0)
                                   /\ (acc.active = NoInterface
                                       \/ r.recv + r.sent > bytes_recv + bytes_sent)
                                THEN r.iface ELSE acc.active
                  IN  NetPass(Tail(rows),
                              [bytes_recv |-> bytes_recv, bytes_sent |-> bytes_sent, active |-> active])

\* a WiFi test that knows only the wlan prefix
IsWifi_WlanOnly(iface) == StartsWith(iface, <<"w", "l", "a", "n">>)

\* line 584: the WiFi test on the interface name
IsWifi(iface) ==
    StartsWith(iface, <<"w", "l">>) \/ StartsWith(iface, <<"w", "l", "a", "n">>)

OptOrZero(o) == IF o = <<>> THEN 0 ELSE o[1]

\* Python truthiness of an optional number: None and 0 are false
Truthy(o) == o # <<>> /\ o[1] # 0

\* the link probe a call runs: none without an active interface, iw for a
\* WiFi interface, the sysfs speed attribute for any other
NoProbe == [kind |-> "none"]
LinkProbes(active) ==
    IF active = NoInterface THEN {NoProbe}
    ELSE IF IsWifi(active) THEN IwOutcomes ELSE EthSpeedOutcomes

\* lines 582-616: link type, link speed (tenths of Mbit/s) and the WiFi rates
LinkInfo(active, iw, eth) ==
    IF active = NoInterface
    THEN [link_type |-> NoneStr, link_speed_mbps |-> <<>>, wifi_tx_speed |-> <<>>, wifi_rx_speed |-> <<>>]
    ELSE IF IsWifi(active)
    THEN IF iw.kind = "ok"
         THEN [link_type |-> "WiFi",
               link_speed_mbps |-> IF Truthy(iw.tx) \/ Truthy(iw.rx)
                                   THEN <<Max(OptOrZero(iw.tx), OptOrZero(iw.rx))>> ELSE <<>>,
               wifi_tx_speed |-> iw.tx, wifi_rx_speed |-> iw.rx]
         ELSE [link_type |-> "WiFi", link_speed_mbps |-> <<>>, wifi_tx_speed |-> <<>>, wifi_rx_speed |-> <<>>]
    ELSE [link_type |-> "Ethernet",
          link_speed_mbps |-> IF eth.kind = "ok" /\ eth.speed > 0 THEN <<eth.speed * 10>> ELSE <<>>,
          wifi_tx_speed |-> <<>>, wifi_rx_speed |-> <<>>]

\* lines 627-637, 646: latency_ms, in tenths of a millisecond
Latency(ping) ==
    IF ping.kind = "ok" /\ ping.time # 0 THEN <<ping.time>> ELSE <<>>

\* a try block that lets the exceptions of the probe through
PingEscapes_Raise(ping) == ping.kind = "raise"

\* lines 628-637: whether an exception of the probe leaves its try block; the
\* bare except of line 636 catches every one
PingEscapes(ping) == FALSE

RoundRate_Truncate(delta_bytes, time_diff) == (delta_bytes * 100) \div (time_diff * BytesPerMiB)

\* lines 623-624 with the round(.., 2) of lines 642-643: the rate in MB/s,
\* in hundredths
RoundRate(delta_bytes, time_diff) == RoundHalfEven(delta_bytes * 100, time_diff * BytesPerMiB)

FloorAtZero_Identity(x) == x

\* lines 642-643: max(0, .)
FloorAtZero(x) == Max(0, x)

\* lines 619-624: a rate is computed only from a stored sample with a
\* positive time difference
Speed(cur_bytes, last_bytes, time_diff) ==
    IF time_diff > 0 THEN RoundRate(cur_bytes - last_bytes, time_diff) ELSE 0

\* lines 660-671: the result of the except branch
NetFailureResult ==
    [download_speed |-> 0,
     upload_speed |-> 0,
     total_download_gb |-> 0,
     total_upload_gb |-> 0,
     latency_ms |-> <<>>,
     link_speed_mbps |-> <<>>,
     link_type |-> NoneStr,
     wifi_tx_speed |-> <<>>,
     wifi_rx_speed |-> <<>>,
     interface |-> NoInterface]

NoNetCall ==
    [kind |-> "none", first |-> FALSE, prev |-> <<>>, prev_time |-> <<>>, time |-> 0,
     rows |-> <<>>, ping |-> "none", after_fail |-> FALSE, prev_ok |-> <<>>, last_ok |-> <<>>,
     result |-> NetFailureResult]

InitNet ==
    /\ last_net_stats = <<>>
    /\ last_net_time = <<>>
    /\ net_call = NoNetCall
    /\ net_pc = "idle"

\* lines 639-652: the result of a call that parsed /proc/net/dev
CurrentStats(pass, link, latency, download_speed, upload_speed) ==
    [bytes_sent |-> pass.bytes_sent,
     bytes_recv |-> pass.bytes_recv,
     download_speed |-> FloorAtZero(download_speed),
     upload_speed |-> FloorAtZero(upload_speed),
     total_download_gb |-> RoundHalfEven(pass.bytes_recv * 100, BytesPerGiB),
     total_upload_gb |-> RoundHalfEven(pass.bytes_sent * 100, BytesPerGiB),
     latency_ms |-> latency,
     link_speed_mbps |-> link.link_speed_mbps,
     link_type |-> link.link_type,
     wifi_tx_speed |-> link.wifi_tx_speed,
     wifi_rx_speed |-> link.wifi_rx_speed,
     interface |-> pass.active]

\* lines 553-575: a call reads the clock and parses /proc/net/dev
NetStatsRead ==
    \E d \in 1..MaxStep, rows \in NetDevSamples :
        /\ net_pc = "idle"
        /\ now + d <= MaxTime
        /\ now' = now + d
        /\ net_pc' = "probe"
        /\ net_call' = [kind |-> "running", first |-> (net_call.kind = "none"),
                        prev |-> last_net_stats, prev_time |-> last_net_time,
                        time |-> now + d, rows |-> rows, ping |-> "none",
                        after_fail |-> (net_call.kind = "fail"),
                        prev_ok |-> net_call.last_ok, last_ok |-> net_call.last_ok,
                        result |-> NetFailureResult]
        /\ UNCHANGED <<last_net_stats, last_net_time, exceptNet>>

\* lines 576-657: the link probe, the rates, the latency probe, the result
\* and the stored sample of a call that parsed /proc/net/dev
NetStatsOk ==
    \E ping \in PingOutcomes :
      \E pass \in {NetPass(net_call.rows, NetPassStart)} :
      \E probe \in LinkProbes(pass.active) :
        LET current_time == net_call.time
            have_last == last_net_stats # <<>> /\ Truthy(last_net_time)
            time_diff == IF have_last THEN current_time - last_net_time[1] ELSE 0
            download_speed == IF have_last
                              THEN Speed(pass.bytes_recv, last_net_stats[1].bytes_recv, time_diff)
                              ELSE 0
            upload_speed == IF have_last
                            THEN Speed(pass.bytes_sent, last_net_stats[1].bytes_sent, time_diff)
                            ELSE 0
            ping_ran == IF ping.kind = "ok" THEN "ok" ELSE "failed"
        IN  /\ net_pc = "probe"
            /\ net_pc' = "idle"
            /\ IF PingEscapes(ping)
               THEN /\ net_call' = [net_call EXCEPT !.kind = "fail", !.ping = ping_ran]
                    /\ UNCHANGED <<last_net_stats, last_net_time>>
               ELSE /\ last_net_stats' = <<[bytes_sent |-> pass.bytes_sent, bytes_recv |-> pass.bytes_recv]>>
                    /\ last_net_time' = <<current_time>>
                    /\ net_call' = [net_call EXCEPT
                            !.kind = "ok", !.ping = ping_ran,
                            !.last_ok = <<[bytes_sent |-> pass.bytes_sent,
                                           bytes_recv |-> pass.bytes_recv,
                                           time |-> current_time]>>,
                            !.result = CurrentStats(pass, LinkInfo(pass.active, probe, probe),
                                                    Latency(ping), download_speed, upload_speed)]
            /\ UNCHANGED <<now, exceptNet>>

\* the record of a call that fails before its result is built
NetCallFailed(current_time) ==
    [kind |-> "fail", first |-> (net_call.kind = "none"),
     prev |-> last_net_stats, prev_time |-> last_net_time,
     time |-> current_time, rows |-> <<>>, ping |-> "none",
     after_fail |-> (net_call.kind = "fail"),
     prev_ok |-> net_call.last_ok, last_ok |-> net_call.last_ok,
     result |-> NetFailureResult]

\* an except branch that forgets the stored sample
NetStatsRaises_ForgetsSample ==
    \E d \in 1..MaxStep :
        /\ net_pc = "idle"
        /\ now + d <= MaxTime
        /\ now' = now + d
        /\ net_call' = NetCallFailed(now + d)
        /\ last_net_stats' = <<>>
        /\ last_net_time' = <<>>
        /\ UNCHANGED <<net_pc, exceptNet>>

\* lines 553-575, 658-671: /proc/net/dev cannot be read or parsed; the except
\* branch returns its fixed result and the stored sample stays
NetStatsRaises ==
    \E d \in 1..MaxStep :
        /\ net_pc = "idle"
        /\ now + d <= MaxTime
        /\ now' = now + d
        /\ net_call' = NetCallFailed(now + d)
        /\ UNCHANGED <<last_net_stats, last_net_time, net_pc, exceptNet>>

NextNet ==
    \/ NetStatsRead
    \/ NetStatsOk
    \/ NetStatsRaises
    \/ ClockStepBack

(***************************************************************************)
(* get_current_game (GameDetector)                                         *)
(***************************************************************************)
\* line 20
GAME_CACHE_DURATION == 5

\* what get_steam_paths can find: the existing ones of its two candidates
SteamPathChoices == {<<>>, <<".steam/steam/steamapps">>, <<".local/share/Steam/steamapps">>,
                     <<".steam/steam/steamapps", ".local/share/Steam/steamapps">>}

\* method 1 (lines 786-809): the title and appid of the first manifest whose
\* process runs and whose name parses; the regex "([^"]+)" gives no empty name
M1Detections == {[name |-> "Alpha", appid |-> "10"]}

\* method 2 (lines 812-834): the executable token of a SteamLaunch command
\* line with '.exe' / '.x86_64' removed (empty for a token such as '/x/.exe')
\* and the AppId, None when the line has none
M2Detections == {[name |-> "", appid |-> "20"],
                 [name |-> "Beta", appid |-> "20"],
                 [name |-> "Beta", appid |-> NoneStr]}

\* Python truthiness of an optional string: None and '' are false
StrTruthy(x) == x # NoneStr /\ x # ""

\* lines 844, 858, 865: _cached_game_name and
\* (current_time - _cached_game_time) < GAME_CACHE_DURATION
CacheValid(name, cached_time, current_time) ==
    StrTruthy(name) /\ (current_time - cached_time) < GAME_CACHE_DURATION

\* an expiry test that never finds the cache expired
CacheExpired_Never(name, cached_time, current_time) == FALSE

\* line 869: a cached title whose age reached the TTL
CacheExpired(name, cached_time, current_time) ==
    StrTruthy(name) /\ (current_time - cached_time) >= GAME_CACHE_DURATION

\* line 783
DesktopInfo == [name |-> "Desktop", appid |-> NoneStr]

\* lines 761-775: the memo of get_steam_paths, filled by the first call
SteamPathsAfter(found) == IF steam_paths = <<>> THEN <<found>> ELSE steam_paths

\* what the probes of one call would find: the detection of method 1 and of
\* method 2 (<<>> when the method finds nothing or raises), whether gamescope
\* runs and whether gamemoded reports active; a method after the first
\* successful one is not run
GameSignals ==
    [m1 : {<<>>} \cup {<<g>> : g \in M1Detections},
     m2 : {<<>>} \cup {<<g>> : g \in M2Detections},
     m3 : BOOLEAN,
     m4 : BOOLEAN]

NoSignals == [m1 |-> <<>>, m2 |-> <<>>, m3 |-> FALSE, m4 |-> FALSE]

\* an order of the methods in which the launcher scan precedes the manifest scan
FirstSuccess_LauncherFirst(sig) ==
    IF sig.m2 # <<>> THEN "m2"
    ELSE IF sig.m1 # <<>> THEN "m1"
    ELSE IF sig.m3 THEN "m3"
    ELSE IF sig.m4 THEN "m4"
    ELSE "fallback"

\* lines 785-862: the method whose return statement is reached first
FirstSuccess(sig) ==
    IF sig.m1 # <<>> THEN "m1"
    ELSE IF sig.m2 # <<>> THEN "m2"
    ELSE IF sig.m3 THEN "m3"
    ELSE IF sig.m4 THEN "m4"
    ELSE "fallback"

\* whether the manifests of the Steam paths can hold what method 1 found
SignalsPossible(sig, paths) == sig.m1 # <<>> => paths[1] # <<>>

\* the Steam paths a call can find: get_steam_paths looks only while its memo
\* is None
PathsFound == IF steam_paths = <<>> THEN SteamPathChoices ELSE {<<>>}

NoGameCall ==
    [kind |-> "none", time |-> 0, result |-> DesktopInfo, signals |-> NoSignals,
     pre_name |-> NoneStr, pre_time |-> 0, pre_appid |-> NoneStr]

GameCall(kind, current_time, result, sig) ==
    [kind |-> kind, time |-> current_time, result |-> result, signals |-> sig,
     pre_name |-> cached_game_name, pre_time |-> cached_game_time,
     pre_appid |-> cached_game_appid]

InitGame ==
    /\ cached_game_name = NoneStr
    /\ cached_game_time = 0
    /\ cached_game_appid = NoneStr
    /\ steam_paths = <<>>
    /\ last_detect = <<>>
    /\ game_call = NoGameCall
    /\ game_pc = "idle"

\* lines 753-758: update_game_cache(name, appid) at time.time() = t
UpdateGameCache(name, appid, t) ==
    /\ cached_game_name' = name
    /\ cached_game_time' = t
    /\ cached_game_appid' = appid
    /\ last_detect' = <<[name |-> name, appid |-> appid, time |-> t]>>

\* lines 782-787: a call reads the clock and, entering method 1, asks
\* get_steam_paths for the Steam paths
GameCallBegins ==
    \E d \in 1..MaxStep, found \in PathsFound :
        /\ game_pc = "idle"
        /\ now + d <= MaxGameTime
        /\ now' = now + d
        /\ game_pc' = "probe"
        /\ steam_paths' = SteamPathsAfter(found)
        /\ game_call' = [NoGameCall EXCEPT !.kind = "running", !.time = now + d]
        /\ UNCHANGED <<cached_game_name, cached_game_time, cached_game_appid, last_detect>>
        /\ UNCHANGED exceptGame

\* lines 787-805: method 1 finds a running title in a manifest of a known
\* Steam path; e is the time the scan took before update_game_cache ran
GameFoundByManifest ==
    \E e \in 0..1, sig \in GameSignals :
        LET current_time == game_call.time
            g == sig.m1[1]
        IN  /\ game_pc = "probe"
            /\ now + e <= MaxGameTime
            /\ FirstSuccess(sig) = "m1"
            /\ SignalsPossible(sig, steam_paths)
            /\ UpdateGameCache(g.name, g.appid, now + e)
            /\ now' = now + e
            /\ game_pc' = "idle"
            /\ game_call' = GameCall("m1", current_time, [name |-> g.name, appid |-> g.appid], sig)
            /\ UNCHANGED <<steam_paths, exceptGame>>

\* lines 787-832: method 1 finds nothing (or raises), method 2 finds a
\* SteamLaunch line with an executable token
GameFoundByLauncher ==
    \E e \in 0..1, sig \in GameSignals :
        LET current_time == game_call.time
            g == sig.m2[1]
        IN  /\ game_pc = "probe"
            /\ now + e <= MaxGameTime
            /\ FirstSuccess(sig) = "m2"
            /\ UpdateGameCache(g.name, g.appid, now + e)
            /\ now' = now + e
            /\ game_pc' = "idle"
            /\ game_call' = GameCall("m2", current_time, [name |-> g.name, appid |-> g.appid], sig)
            /\ UNCHANGED <<steam_paths, exceptGame>>

\* lines 836-862: methods 1 and 2 find nothing; gamescope runs (method 3) or,
\* failing that, gamemoded reports active (method 4)
GameWeakSignal ==
    \E sig \in GameSignals :
        LET current_time == game_call.time
            method == FirstSuccess(sig)
            label == IF method = "m3" THEN "SteamOS" ELSE "Gaming (Active)"
        IN  /\ game_pc = "probe"
            /\ method \in {"m3", "m4"}
            /\ game_pc' = "idle"
            /\ game_call' = GameCall(method, current_time,
                    IF CacheValid(cached_game_name, cached_game_time, current_time)
                    THEN [name |-> cached_game_name, appid |-> cached_game_appid]
                    ELSE [name |-> label, appid |-> NoneStr], sig)
            /\ UNCHANGED <<now, steam_paths, cached_game_name, cached_game_time,
                           cached_game_appid, last_detect>>
            /\ UNCHANGED exceptGame

\* lines 787-873: methods 1 to 4 all find nothing (or raise): the cache
\* fallback, the clearing of an expired cache and the default
GameNoSignal ==
    LET current_time == game_call.time
    IN  /\ game_pc = "probe"
        /\ game_pc' = "idle"
        /\ IF CacheValid(cached_game_name, cached_game_time, current_time)
           THEN /\ game_call' = GameCall("cache", current_time,
                        [name |-> cached_game_name, appid |-> cached_game_appid], NoSignals)
                /\ UNCHANGED <<cached_game_name, cached_game_appid>>
           ELSE /\ game_call' = GameCall("default", current_time, DesktopInfo, NoSignals)
                /\ IF CacheExpired(cached_game_name, cached_game_time, current_time)
                   THEN cached_game_name' = NoneStr /\ cached_game_appid' = NoneStr
                   ELSE UNCHANGED <<cached_game_name, cached_game_appid>>
        /\ UNCHANGED <<now, steam_paths, cached_game_time, last_detect>>
        /\ UNCHANGED exceptGame

NextGame ==
    \/ GameCallBegins
    \/ GameFoundByManifest
    \/ GameFoundByLauncher
    \/ GameWeakSignal
    \/ GameNoSignal

(***************************************************************************)
(* get_cpu_name and get_gpu_name (lines 43-141)                            *)
(*                                                                         *)
(* A name is the sequence of its whitespace-separated words; the empty     *)
(* sequence is the empty string.  The trademark glyphs, the vendor's legal *)
(* names, the bracketed groups and the revision suffix of the raw strings  *)
(* are words of their own, so the substitutions of the clean-up act on     *)
(* whole words and ' '.join(s.split()) is the identity on the result.      *)
(* The memo globals hold <<>> for None and <<name>> otherwise.             *)
(***************************************************************************)
Unknown_CPU == <<"Unknown", "CPU">>
Unknown_GPU == <<"Unknown", "GPU">>

\* a memo test that never finds the memo set
NameTruthy_Never(cached) == FALSE

\* lines 46, 78: `if _cached_cpu_name:` - None and '' are both falsy
NameTruthy(cached) == cached # <<>> /\ cached[1] # <<>>

DropWords(s, S) == SelectSeq(s, LAMBDA w : w \notin S)

HasWord(s, w) == \E i \in 1..Len(s) : s[i] = w

\* str.replace(w + ' ', ''): every occurrence of word w that another word follows
RECURSIVE DropFollowed(_, _)
DropFollowed(s, w) ==
    IF Len(s) <= 1 THEN s
    ELSE IF Head(s) = w THEN DropFollowed(Tail(s), w)
    ELSE <<Head(s)>> \o DropFollowed(Tail(s), w)

\* line 55: re.sub(r'\(R\)|\(TM\)|\(tm\)', '', cpu_name)
TrademarkGlyphs == {"(R)", "(TM)", "(tm)"}

\* the words matching \d+-Core that occur in the raw names below
CoreCountWords == {"6-Core", "8-Core"}

\* line 56: re.sub(r'\d+-Core\s+Processor|\d+-Core', '', cpu_name)
RECURSIVE DropCoreCount(_)
DropCoreCount(s) ==
    IF s = <<>> THEN <<>>
    ELSE IF Head(s) \in CoreCountWords
         THEN IF Len(s) > 1 /\ s[2] = "Processor"
              THEN DropCoreCount(SubSeq(s, 3, Len(s)))
              ELSE DropCoreCount(Tail(s))
         ELSE <<Head(s)>> \o DropCoreCount(Tail(s))

\* the last position of word w in s, 0 when absent
LastIndexOf(s, w) ==
    IF HasWord(s, w) THEN CHOOSE i \in 1..Len(s) : s[i] = w /\ \A j \in (i+1)..Len(s) : s[j] # w
    ELSE 0

\* line 57: re.sub(r'with.*Graphics|CPU\s*@.*|Processor', '', cpu_name):
\* leftmost match first, the alternatives in order, `.*` greedy
RECURSIVE DropSuffixes(_)
DropSuffixes(s) ==
    IF s = <<>> THEN <<>>
    ELSE IF Head(s) = "with" /\ LastIndexOf(Tail(s), "Graphics") > 0
         THEN DropSuffixes(SubSeq(Tail(s), LastIndexOf(Tail(s), "Graphics") + 1, Len(Tail(s))))
    ELSE IF Head(s) = "CPU" /\ Len(s) > 1 /\ s[2] = "@" THEN <<>>
    ELSE IF Head(s) = "Processor" THEN DropSuffixes(Tail(s))
    ELSE <<Head(s)>> \o DropSuffixes(Tail(s))

\* lines 61-64: brand formatting
BrandFormat(s) ==
    IF HasWord(s, "AMD") THEN <<"AMD">> \o DropFollowed(s, "AMD")
    ELSE IF HasWord(s, "Intel")
         THEN <<"Intel">> \o DropFollowed(DropFollowed(s, "Intel"), "Core")
    ELSE s

\* lines 55-64
CleanCpuName(raw) ==
    BrandFormat(DropSuffixes(DropCoreCount(DropWords(raw, TrademarkGlyphs))))

\* the value of the first `model name` line of /proc/cpuinfo; the last one is
\* a blank value
CpuModelNames == {
    <<"AMD", "Ryzen", "7", "5800X", "8-Core", "Processor">>,
    <<"AMD", "Ryzen", "5", "5600G", "with", "Radeon", "Graphics">>,
    <<"Intel", "(R)", "Core", "(TM)", "i7-8700K", "CPU", "@", "3.70GHz">>,
    <<>> }

\* what a read of /proc/cpuinfo can give: open() or the parse raises, no line
\* holds `model name`, or the first such line holds the raw name
CpuInfoOutcomes ==
    {[kind |-> "raise", raw |-> <<>>], [kind |-> "nomodel", raw |-> <<>>]}
        \cup {[kind |-> "model", raw |-> r] : r \in CpuModelNames}

\* lines 49-72: the name one read resolves to
CpuResolution(o) ==
    IF o.kind = "model" THEN CleanCpuName(o.raw) ELSE Unknown_CPU

\* lines 88-91: the vendor substitutions
VendorWord(w) ==
    IF w = "Advanced Micro Devices, Inc." THEN "AMD"
    ELSE IF w = "NVIDIA Corporation" THEN "NVIDIA"
    ELSE IF w = "Intel Corporation" THEN "Intel"
    ELSE w

\* line 89 and line 92: '[AMD/ATI]', the bracketed groups and the revision
\* suffixes that occur in the lspci lines below
BracketWords == {"[AMD/ATI]", "[Radeon RX 7900 XT/7900 XTX]", "[Radeon RX 9070/9070 XT]",
                 "[GeForce RTX 3080]", "[Radeon]", "(rev c8)", "(rev c0)", "(rev a1)"}

\* lines 88-93
CleanGpuName(raw) ==
    DropWords([i \in 1..Len(raw) |-> VendorWord(raw[i])], BracketWords)

AmdMap == <<
    [chip |-> <<"Navi", "48", "XT">>, marketing |-> "RX 9070 XT 16GB"],
    [chip |-> <<"Navi", "48", "XL">>, marketing |-> "RX 9070 XT 12GB"],
    [chip |-> <<"Navi", "48">>, marketing |-> "RX 9070 XT"],
    [chip |-> <<"Navi", "44", "XT">>, marketing |-> "RX 9060 XT 16GB"],
    [chip |-> <<"Navi", "44", "XL">>, marketing |-> "RX 9060 XT 8GB"],
    [chip |-> <<"Navi", "44">>, marketing |-> "RX 9060 XT"],
    [chip |-> <<"Navi", "31", "XT">>, marketing |-> "RX 7900 XTX"],
    [chip |-> <<"Navi", "31", "XL">>, marketing |-> "RX 7900 XT"],
    [chip |-> <<"Navi", "31">>, marketing |-> "RX 7900 XTX"],
    [chip |-> <<"Navi", "32", "XT">>, marketing |-> "RX 7800 XT"],
    [chip |-> <<"Navi", "32">>, marketing |-> "RX 7800 XT"],
    [chip |-> <<"Navi", "33", "XT">>, marketing |-> "RX 7600 XT"],
    [chip |-> <<"Navi", "33", "XL">>, marketing |-> "RX 7600"],
    [chip |-> <<"Navi", "33">>, marketing |-> "RX 7600 XT"],
    [chip |-> <<"Navi", "21", "XT">>, marketing |-> "RX 6900 XT"],
    [chip |-> <<"Navi", "21", "XL">>, marketing |-> "RX 6800 XT"],
    [chip |-> <<"Navi", "21">>, marketing |-> "RX 6900 XT / 6800 XT / 6800"],
    [chip |-> <<"Navi", "22", "XT">>, marketing |-> "RX 6750 XT"],
    [chip |-> <<"Navi", "22", "XL">>, marketing |-> "RX 6700 XT"],
    [chip |-> <<"Navi", "22">>, marketing |-> "RX 6700 XT"],
    [chip |-> <<"Navi", "23", "XT">>, marketing |-> "RX 6600 XT"],
    [chip |-> <<"Navi", "23", "XL">>, marketing |-> "RX 6600"],
    [chip |-> <<"Navi", "23">>, marketing |-> "RX 6600 XT / 6600"],
    [chip |-> <<"Navi", "10">>, marketing |-> "RX 5700 XT / 5700"],
    [chip |-> <<"Navi", "12">>, marketing |-> "RX 5500 XT / 5500"],
    [chip |-> <<"Navi", "14">>, marketing |-> "RX 5500 / 5300"],
    [chip |-> <<"Vega", "10">>, marketing |-> "RX Vega 64 / 56"],
    [chip |-> <<"Vega", "12">>, marketing |-> "RX Vega M"],
    [chip |-> <<"Vega", "20">>, marketing |-> "VII"],
    [chip |-> <<"Polaris", "10">>, marketing |-> "RX 580 / 480"],
    [chip |-> <<"Polaris", "20">>, marketing |-> "RX 590 / 580"],
    [chip |-> <<"Polaris", "11">>, marketing |-> "RX 560 / 460"],
    [chip |-> <<"Polaris", "12">>, marketing |-> "RX 550"],
    [chip |-> <<"Ellesmere">>, marketing |-> "RX 480 / 580"],
    [chip |-> <<"Baffin">>, marketing |-> "RX 460 / 560"],
    [chip |-> <<"Lexa">>, marketing |-> "RX 550"]
>>

\* `chip in gpu_name` for a codename and a cleaned name
Contains(s, sub) ==
    \E i \in 0..(Len(s) - Len(sub)) : \A j \in 1..Len(sub) : s[i + j] = sub[j]

\* a lookup that keeps the last codename of the table that occurs in the name
FirstChip_Last(s) ==
    LET hits == {i \in 1..Len(AmdMap) : Contains(s, AmdMap[i].chip)}
    IN  IF hits = {} THEN 0 ELSE CHOOSE i \in hits : \A j \in hits : i >= j

\* lines 131-134: the first codename, in the order of the table, that occurs
\* in the name; 0 when none does
FirstChip(s) ==
    LET hits == {i \in 1..Len(AmdMap) : Contains(s, AmdMap[i].chip)}
    IN  IF hits = {} THEN 0 ELSE CHOOSE i \in hits : \A j \in hits : i <= j

\* lines 87-137 for the selected line
GpuNameOf(raw) ==
    LET gpu_name == CleanGpuName(raw)
        hit == FirstChip(gpu_name)
    IN  IF hit > 0 THEN <<"AMD", AmdMap[hit].marketing>> ELSE gpu_name

\* lines of lspci: whether the line holds 'VGA', 'Display' or '3D', and the
\* words after its first colon
L_bridge == [display |-> FALSE,
             tail |-> <<"00.0", "Host", "bridge:", "Advanced Micro Devices, Inc.", "Root", "Complex">>]
L_navi31 == [display |-> TRUE,
             tail |-> <<"00.0", "VGA", "compatible", "controller:", "Advanced Micro Devices, Inc.",
                        "[AMD/ATI]", "Navi", "31", "[Radeon RX 7900 XT/7900 XTX]", "(rev c8)">>]
L_navi48 == [display |-> TRUE,
             tail |-> <<"00.0", "VGA", "compatible", "controller:", "Advanced Micro Devices, Inc.",
                        "[AMD/ATI]", "Navi", "48", "XT", "[Radeon RX 9070/9070 XT]", "(rev c0)">>]
L_ga102 == [display |-> TRUE,
            tail |-> <<"00.0", "VGA", "compatible", "controller:", "NVIDIA Corporation", "GA102",
                       "[GeForce RTX 3080]", "(rev a1)">>]

LspciOutputs == {<<L_bridge>>, <<L_bridge, L_navi31>>, <<L_navi48, L_ga102>>, <<L_bridge, L_ga102>>}

LspciOutcomes ==
    {[kind |-> "raise", out |-> <<>>]} \cup {[kind |-> "ok", out |-> o] : o \in LspciOutputs}

\* lines 83-85: the first line that holds 'VGA', 'Display' or '3D'; 0 when none
FirstDisplayLine(out) ==
    LET hits == {i \in 1..Len(out) : out[i].display}
    IN  IF hits = {} THEN 0 ELSE CHOOSE i \in hits : \A j \in hits : i <= j

\* lines 81-141: the name one run of lspci resolves to
GpuResolution(o) ==
    IF o.kind = "ok" /\ FirstDisplayLine(o.out) > 0
    THEN GpuNameOf(o.out[FirstDisplayLine(o.out)].tail)
    ELSE Unknown_GPU

\* the chip designations of the display controllers lspci can list: every
\* codename of the table, the codenames followed by a variant word, and
\* chips the table does not hold
ChipVariants == {<<"XT">>, <<"XL">>, <<"PRO">>}
UnlistedChips == {<<"Navi", "24">>, <<"Navi", "24", "XT">>, <<"Cezanne">>, <<"Polaris", "22", "XT">>}
ChipDesignations ==
    {AmdMap[i].chip : i \in 1..Len(AmdMap)}
        \cup {AmdMap[i].chip \o v : i \in {k \in 1..Len(AmdMap) : Len(AmdMap[k].chip) <= 2},
                                    v \in ChipVariants}
        \cup UnlistedChips

\* the lspci line of a display controller with the chip designation c
ChipLine(c) ==
    [display |-> TRUE,
     tail |-> <<"00.0", "VGA", "compatible", "controller:", "Advanced Micro Devices, Inc.",
                "[AMD/ATI]">> \o c \o <<"[Radeon]", "(rev c8)">>]

ChipLspciOutcomes == {[kind |-> "ok", out |-> <<L_bridge, ChipLine(c)>>] : c \in ChipDesignations}

\* lines 83-93: the cleaned name of the selected line, <<>> when no line is
\* selected
CleanedOf(o) ==
    IF o.kind = "ok" /\ FirstDisplayLine(o.out) > 0
    THEN CleanGpuName(o.out[FirstDisplayLine(o.out)].tail)
    ELSE <<>>

NoNameCall == [fn |-> "none", read |-> FALSE, failed |-> FALSE, input |-> <<>>, result |-> <<>>]

InitName ==
    /\ cached_cpu_name = <<>>
    /\ cached_gpu_name = <<>>
    /\ cpu_reads = 0
    /\ gpu_reads = 0
    /\ cpu_first = <<>>
    /\ gpu_first = <<>>
    /\ name_call = NoNameCall

\* lines 46-47: the memo is truthy and is returned
GetCpuNameCached ==
    /\ NameTruthy(cached_cpu_name)
    /\ name_call' = [fn |-> "cpu", read |-> FALSE, failed |-> FALSE, input |-> <<>>,
                     result |-> cached_cpu_name[1]]
    /\ UNCHANGED <<now, cached_cpu_name, cached_gpu_name, cpu_reads, gpu_reads,
                   cpu_first, gpu_first, exceptName>>

\* lines 49-72: /proc/cpuinfo is read and the name is stored
GetCpuNameResolves ==
    /\ ~NameTruthy(cached_cpu_name)
    /\ cpu_reads < MaxReads
    /\ \E o \in CpuInfoOutcomes :
         /\ cached_cpu_name' = <<CpuResolution(o)>>
         /\ cpu_first' = IF cpu_first = <<>> THEN <<CpuResolution(o)>> ELSE cpu_first
         /\ name_call' = [fn |-> "cpu", read |-> TRUE, failed |-> (o.kind # "model"),
                          input |-> <<>>, result |-> CpuResolution(o)]
    /\ cpu_reads' = cpu_reads + 1
    /\ UNCHANGED <<now, cached_gpu_name, gpu_reads, gpu_first, exceptName>>

\* lines 78-79
GetGpuNameCached ==
    /\ NameTruthy(cached_gpu_name)
    /\ name_call' = [fn |-> "gpu", read |-> FALSE, failed |-> FALSE, input |-> <<>>,
                     result |-> cached_gpu_name[1]]
    /\ UNCHANGED <<now, cached_cpu_name, cached_gpu_name, cpu_reads, gpu_reads,
                   cpu_first, gpu_first, exceptName>>

\* lines 81-141: lspci is run, with one of the given outcomes, and the name
\* is stored
GetGpuNameFrom(outcomes) ==
    /\ ~NameTruthy(cached_gpu_name)
    /\ gpu_reads < MaxReads
    /\ \E o \in outcomes :
         /\ cached_gpu_name' = <<GpuResolution(o)>>
         /\ gpu_first' = IF gpu_first = <<>> THEN <<GpuResolution(o)>> ELSE gpu_first
         /\ name_call' = [fn |-> "gpu", read |-> TRUE,
                          failed |-> ~(o.kind = "ok" /\ FirstDisplayLine(o.out) > 0),
                          input |-> CleanedOf(o), result |-> GpuResolution(o)]
    /\ gpu_reads' = gpu_reads + 1
    /\ UNCHANGED <<now, cached_cpu_name, cpu_reads, cpu_first, exceptName>>

GetGpuNameResolves == GetGpuNameFrom(LspciOutcomes)

\* get_gpu_name on a machine whose display controller is one of the chips
GetGpuNameOfChip == GetGpuNameFrom(ChipLspciOutcomes)

NextName ==
    \/ GetCpuNameCached
    \/ GetCpuNameResolves
    \/ GetGpuNameCached
    \/ GetGpuNameResolves

NextGpuTable ==
    \/ GetGpuNameOfChip
    \/ GetGpuNameCached

(***************************************************************************)
(* collect_stats, send_stats and the loop of main (lines 880-952)          *)
(*                                                                         *)
(* collect_stats calls the samplers in the order of its dict display.  A   *)
(* sampler's result is kept as the set of its fields; a scalar or a list   *)
(* has the single field Value.  A KeyboardInterrupt can be raised while a  *)
(* sampler waits at one of its probes: a probe inside a bare `except:` is  *)
(* a swallowing point, any other is a propagating point.  A point is named *)
(* by what is waited on and the line of the wait.                          *)
(***************************************************************************)
Value == {"<value>"}

\* line 783, 805, 832, 845-846, 859-860, 866, 873
GameFields == DOMAIN DesktopInfo

\* line 275
GpuStatsFields == {"usage", "temp", "frequency", "power", "vram_used", "vram_total"}

\* lines 396-402 and line 405
MemoryFields == {"used", "total", "percent", "type", "speed"}

\* lines 639-652
NetworkFields ==
    DOMAIN CurrentStats(NetPassStart, LinkInfo(NoInterface, NoProbe, NoProbe), <<>>, 0, 0)

\* lines 660-671
NetworkFailureFields == DOMAIN NetFailureResult

Sampler(key, ok, failed, swallowing, propagating) ==
    [key |-> key, ok |-> ok, failed |-> failed,
     swallowing |-> swallowing, propagating |-> propagating]

\* lines 882-903, in the order of evaluation
Samplers == <<
    Sampler("game", GameFields, GameFields,
            {"manifest.read_text:800", "pgrep gamescope:838", "gamemoded:852"},
            {"pgrep steam_app:792", "pgrep SteamLaunch:813"}),
    Sampler("cpu.usage", Value, Value, {}, {"top:164"}),
    Sampler("cpu.temp", Value, Value, {}, {"hwmon:183"}),
    Sampler("cpu.frequency", Value, Value, {}, {"cpufreq:207"}),
    Sampler("cpu.power", Value, Value, {}, {"energy:237"}),
    Sampler("cpu.name", Value, Value, {}, {"cpuinfo:50"}),
    Sampler("gpu", GpuStatsFields, GpuStatsFields, {}, {"hwmon:284", "nvidia-smi:336"}),
    Sampler("gpu.name", Value, Value, {}, {"lspci:82"}),
    Sampler("ram", MemoryFields, MemoryFields, {"dmidecode:378"}, {"meminfo:364"}),
    Sampler("disks", Value, Value, {}, {"lsblk:418", "df:496"}),
    Sampler("network", NetworkFields, NetworkFailureFields,
            {"iw:588", "speed file:611", "ping:629"}, {"net/dev:559"}),
    Sampler("fps", Value, Value, {"fps.txt:683", "gamescope-stats:706"}, {"get_fps:737"})
>>

SamplerKeys == {Samplers[i].key : i \in 1..Len(Samplers)}

NoSnapshot == [k \in SamplerKeys |-> {}]

NoInterrupt == <<>>

\* the status of the answer of receive_stats of the display server
\* (src/RPI/stats_display_v1.py, lines 1836, 1838 and 1842)
ServerAnswers == {"200", "400"}

\* no call of send_stats yet; `status` is "none" when no answer came
NoSendCall == [tick |-> 0, status |-> "none", returned |-> "none"]

InitMain ==
    /\ main_pc = "collect"
    /\ tick = 1
    /\ stage = 1
    /\ snapshot = NoSnapshot
    /\ transmitted = {}
    /\ consecutive_failures = 0
    /\ interrupt = NoInterrupt
    /\ send_call = NoSendCall

\* the sampler at `stage` has returned its result r
Collected(r) ==
    /\ snapshot' = [snapshot EXCEPT ![Samplers[stage].key] = r]
    /\ stage' = stage + 1
    /\ main_pc' = IF stage = Len(Samplers) THEN "send" ELSE "collect"

\* lines 882-903: the next sampler runs and returns, its probes read or failed
SamplerReturns ==
    /\ main_pc = "collect"
    /\ \E r \in {Samplers[stage].ok, Samplers[stage].failed} : Collected(r)
    /\ UNCHANGED <<now, send_call, tick, transmitted, consecutive_failures, interrupt, exceptMain>>

\* a KeyboardInterrupt raised at a probe inside a bare `except:` (lines 392,
\* 604, 615, 636, 686, 723, 806, 847, 861): the probe counts as failed and the
\* sampler goes on to return its result
SamplerSwallowsInterrupt ==
    /\ main_pc = "collect"
    /\ \E p \in Samplers[stage].swallowing :
         interrupt' = <<[tick |-> tick, phase |-> "collect", point |-> p, swallowed |-> TRUE]>>
    /\ Collected(Samplers[stage].ok)
    /\ UNCHANGED <<now, send_call, tick, transmitted, consecutive_failures, exceptMain>>

\* a KeyboardInterrupt raised anywhere else in a sampler passes its
\* `except Exception` and collect_stats, and reaches lines 947-949
SamplerInterrupted ==
    /\ main_pc = "collect"
    /\ \E p \in Samplers[stage].propagating :
         interrupt' = <<[tick |-> tick, phase |-> "collect", point |-> p, swallowed |-> FALSE]>>
    /\ main_pc' = "stopped"
    /\ UNCHANGED <<now, send_call, tick, stage, snapshot, transmitted, consecutive_failures, exceptMain>>

\* lines 909-910, 933-940: the post succeeds
SendStatsDelivered ==
    /\ main_pc = "send"
    /\ \E status \in ServerAnswers :
          send_call' = [tick |-> tick, status |-> status, returned |-> "True"]
    /\ transmitted' = transmitted \cup {tick}
    /\ consecutive_failures' = 0
    /\ main_pc' = "sleep"
    /\ UNCHANGED <<now, tick, stage, snapshot, interrupt, exceptMain>>

\* a failed send that ends the loop
SendStatsFails_Stops ==
    /\ main_pc = "send"
    /\ send_call' = [tick |-> tick, status |-> "none", returned |-> "False"]
    /\ consecutive_failures' = consecutive_failures + 1
    /\ main_pc' = "stopped"
    /\ UNCHANGED <<now, tick, stage, snapshot, transmitted, interrupt, exceptMain>>

\* lines 911-912, 941-944: RequestException, send_stats returns False
SendStatsFails ==
    /\ main_pc = "send"
    /\ send_call' = [tick |-> tick, status |-> "none", returned |-> "False"]
    /\ consecutive_failures' = consecutive_failures + 1
    /\ main_pc' = "sleep"
    /\ UNCHANGED <<now, tick, stage, snapshot, transmitted, interrupt, exceptMain>>

\* lines 950-952: the post raises an exception that is not a RequestException
SendStatsRaises ==
    /\ main_pc = "send"
    /\ main_pc' = "error_sleep"
    /\ UNCHANGED <<now, send_call, tick, stage, snapshot, transmitted, consecutive_failures,
                   interrupt, exceptMain>>

\* lines 947-949: KeyboardInterrupt during the post; the request may or may
\* not have gone out
SendStatsInterrupted ==
    /\ main_pc = "send"
    /\ \E out \in BOOLEAN : transmitted' = IF out THEN transmitted \cup {tick} ELSE transmitted
    /\ interrupt' = <<[tick |-> tick, phase |-> "send", point |-> "post:909", swallowed |-> FALSE]>>
    /\ main_pc' = "stopped"
    /\ UNCHANGED <<now, send_call, tick, stage, snapshot, consecutive_failures, exceptMain>>

\* lines 945 and 952, then line 930: the sleep ends and the next tick begins
Sleep ==
    /\ main_pc \in {"sleep", "error_sleep"}
    /\ tick < MaxTicks
    /\ tick' = tick + 1
    /\ stage' = 1
    /\ snapshot' = NoSnapshot
    /\ main_pc' = "collect"
    /\ UNCHANGED <<now, send_call, transmitted, consecutive_failures, interrupt, exceptMain>>

\* line 945 inside the try: KeyboardInterrupt reaches lines 947-949; line 952
\* inside the handler: it leaves main uncaught
SleepInterrupted ==
    /\ main_pc \in {"sleep", "error_sleep"}
    /\ interrupt' = <<[tick |-> tick, phase |-> "sleep",
                       point |-> IF main_pc = "sleep" THEN "sleep:945" ELSE "sleep:952",
                       swallowed |-> FALSE]>>
    /\ main_pc' = IF main_pc = "sleep" THEN "stopped" ELSE "uncaught"
    /\ UNCHANGED <<now, send_call, tick, stage, snapshot, transmitted, consecutive_failures, exceptMain>>

NextMain ==
    \/ SamplerReturns
    \/ SamplerSwallowsInterrupt
    \/ SamplerInterrupted
    \/ SendStatsDelivered
    \/ SendStatsFails
    \/ SendStatsRaises
    \/ SendStatsInterrupted
    \/ Sleep
    \/ SleepInterrupted

(***************************************************************************)
(* get_gpu_stats (lines 273-353)                                           *)
(*                                                                         *)
(* A field of the result is kept as the backend its value was read from:   *)
(* "default" for the value of line 275, "amd" for a read of the amdgpu     *)
(* sysfs files, "nvidia" for a value parsed from the nvidia-smi output.    *)
(***************************************************************************)
GpuFieldOrder == <<"usage", "temp", "frequency", "power", "vram_used", "vram_total">>

\* line 275
GpuDefaultStats == [f \in GpuStatsFields |-> "default"]

\* an entry of /sys/class/hwmon: its `name` file is missing, cannot be read,
\* names the amdgpu driver or names another driver
HwmonKinds == {"noname", "raise", "amdgpu", "other"}

HwmonListings == SeqsUpTo(HwmonKinds, MaxHwmon)

\* a scan that stops at no entry
HwmonScan_NoStop(hw, i) == 0

\* lines 279-286: the first entry at which the scan stops, by finding amdgpu
\* or by raising; 0 when the scan runs through
RECURSIVE HwmonScan(_, _)
HwmonScan(hw, i) ==
    IF i > Len(hw) THEN 0
    ELSE IF hw[i] \in {"raise", "amdgpu"} THEN i
    ELSE HwmonScan(hw, i + 1)

\* what the reads of one field of the amdgpu branch can do: the file is read,
\* the file is absent, or the read or its parse raises
AmdReadKinds == {"read", "absent", "raise"}

\* lines 323-331: vram_used and vram_total are read only when both files exist;
\* no read follows the first one that raises, which is written as "raise" for
\* every later field
AmdReads ==
    {r \in [GpuStatsFields -> AmdReadKinds] :
        /\ (r["vram_used"] = "absent") <=> (r["vram_total"] = "absent")
        /\ \A i \in 1..Len(GpuFieldOrder), j \in 1..Len(GpuFieldOrder) :
             (i < j /\ r[GpuFieldOrder[i]] = "raise") => r[GpuFieldOrder[j]] = "raise"}

\* lines 287-333: the fields in the order they are assigned, up to the first
\* read that raises
RECURSIVE AmdBranch(_, _, _)
AmdBranch(stats, i, reads) ==
    IF i > Len(GpuFieldOrder) THEN stats
    ELSE LET f == GpuFieldOrder[i]
         IN  IF reads[f] = "raise" THEN stats
             ELSE IF reads[f] = "read"
                  THEN AmdBranch([stats EXCEPT ![f] = "amd"], i + 1, reads)
                  ELSE AmdBranch(stats, i + 1, reads)

\* nvidia-smi: it cannot be run or times out, it exits non-zero, or it exits 0
\* with an output of which the first `parsed` values convert
NvidiaOutcomes ==
    {[kind |-> "raise", parsed |-> 0], [kind |-> "nonzero", parsed |-> 0]}
        \cup {[kind |-> "ok", parsed |-> n] : n \in 0..Len(GpuFieldOrder)}

\* a branch that parses the output whatever the exit code
NvidiaBranch_NoExitCheck(stats, nv) ==
    IF nv.kind = "raise" THEN stats ELSE [f \in GpuStatsFields |-> "nvidia"]

\* lines 341-348: the assignments in order, up to the first value that does
\* not convert
NvidiaBranch(stats, nv) ==
    IF nv.kind # "ok" THEN stats
    ELSE [f \in GpuStatsFields |->
            IF \E i \in 1..nv.parsed : GpuFieldOrder[i] = f THEN "nvidia" ELSE stats[f]]

NoGpuCall == [branch |-> "none", hwmon |-> <<>>, nvidia_queried |-> FALSE,
              nvidia |-> "none", result |-> GpuDefaultStats]

GpuCall(branch, hw, queried, nvidia, result) ==
    [branch |-> branch, hwmon |-> hw, nvidia_queried |-> queried, nvidia |-> nvidia,
     result |-> result]

\* {**a, **b}: the keys of both, a key of b taking the value of b
DictMerge(a, b) == [k \in DOMAIN a \cup DOMAIN b |-> IF k \in DOMAIN b THEN b[k] ELSE a[k]]

NoGpuSection == <<>>

InitGpu ==
    /\ gpu_pc = "idle"
    /\ gpu_hwmon = <<>>
    /\ gpu_call = NoGpuCall
    /\ gpu_section = NoGpuSection

\* a return that also stores "Unknown GPU" in the memo of get_gpu_name
GpuReturns_StoresName(call) ==
    /\ gpu_call' = call
    /\ gpu_pc' = "idle"
    /\ gpu_hwmon' = <<>>
    /\ cached_gpu_name' = <<Unknown_GPU>>
    /\ UNCHANGED <<now, gpu_section, diskVars, powerVars, netVars, gameVars, mainVars,
                   serverVars, cached_cpu_name, cpu_reads, gpu_reads, cpu_first, gpu_first, name_call>>

\* the call returns
GpuReturns(call) ==
    /\ gpu_call' = call
    /\ gpu_pc' = "idle"
    /\ gpu_hwmon' = <<>>
    /\ UNCHANGED <<now, gpu_section, exceptGpu>>

\* lines 275-279: a call begins, stats holds the defaults and /sys/class/hwmon
\* is listed
GpuStatsBegin ==
    /\ gpu_pc = "idle"
    /\ \E hw \in HwmonListings : gpu_hwmon' = hw
    /\ gpu_pc' = "scan"
    /\ gpu_call' = NoGpuCall
    /\ gpu_section' = NoGpuSection
    /\ UNCHANGED <<now, exceptGpu>>

\* lines 279-333: the scan finds an amdgpu entry and the branch returns, or
\* raises part-way into the handler of line 350
GpuStatsAmd ==
    /\ gpu_pc = "scan"
    /\ HwmonScan(gpu_hwmon, 1) > 0
    /\ gpu_hwmon[HwmonScan(gpu_hwmon, 1)] = "amdgpu"
    /\ \E reads \in AmdReads :
         GpuReturns(GpuCall("amd", gpu_hwmon, FALSE, "none", AmdBranch(GpuDefaultStats, 1, reads)))

\* lines 279-286, 350-353: reading a `name` file raises before any amdgpu
\* entry is found
GpuStatsScanRaises ==
    /\ gpu_pc = "scan"
    /\ HwmonScan(gpu_hwmon, 1) > 0
    /\ gpu_hwmon[HwmonScan(gpu_hwmon, 1)] = "raise"
    /\ GpuReturns(GpuCall("raise", gpu_hwmon, FALSE, "none", GpuDefaultStats))

\* lines 335-353: the scan finds no amdgpu entry and nvidia-smi is run
GpuStatsNvidia ==
    /\ gpu_pc = "scan"
    /\ HwmonScan(gpu_hwmon, 1) = 0
    /\ \E nv \in NvidiaOutcomes :
         GpuReturns(GpuCall("nvidia", gpu_hwmon, TRUE, nv.kind, NvidiaBranch(GpuDefaultStats, nv)))

NextGpu ==
    \/ GpuStatsBegin
    \/ GpuStatsAmd
    \/ GpuStatsScanRaises
    \/ GpuStatsNvidia

\* lines 892-895: the "gpu" entry of the snapshot, built from the result of
\* get_gpu_stats and the name get_gpu_name returned
CollectGpuSection ==
    /\ gpu_pc = "idle"
    /\ gpu_call.branch # "none"
    /\ name_call.fn = "gpu"
    /\ gpu_section = NoGpuSection
    /\ gpu_section' = <<DictMerge(gpu_call.result, [name |-> name_call.result])>>
    /\ UNCHANGED <<now, gpu_pc, gpu_hwmon, gpu_call, exceptGpu>>

\* the "gpu" entry of collect_stats: get_gpu_stats, get_gpu_name, the merge
NextGpuSection ==
    \/ NextGpu
    \/ GetGpuNameCached
    \/ GetGpuNameResolves
    \/ CollectGpuSection

(***************************************************************************)
(* The display server (src/RPI/stats_display_v1.py)                        *)
(*                                                                         *)
(* latest_stats is a function from the keys of the dict to their values;   *)
(* a value is a string: NoneStr for None, "<value>" for a value the        *)
(* handlers never look at, the appid, the name or the count otherwise.     *)
(* Flask serves each request on a thread of its own (line 2451), so a GET  *)
(* can be served between two statements of receive_stats; one POST is      *)
(* followed at a time.  A cache maps an appid to <<>> (no entry) or to     *)
(* <<entry>>.                                                              *)
(***************************************************************************)

\* lines 29-30
GAME_NAME_CACHE_DURATION == 3600
PLAYER_COUNT_CACHE_DURATION == 60

\* the seconds that can pass between two steps of the server
ClockSteps == {1, PLAYER_COUNT_CACHE_DURATION, GAME_NAME_CACHE_DURATION}

\* the appid field of a posted snapshot: None when no game is detected
Appids == {"10", "20"}
PostedAppids == Appids \cup {NoneStr}

\* the keys of the dict built by collect_stats of the sender (lines 882-903)
SnapshotKeys == {"cpu", "gpu", "ram", "disks", "network", "fps", "game", "appid", "timestamp"}

PostedStats(appid) == [k \in SnapshotKeys |-> IF k = "appid" THEN appid ELSE "<value>"]

\* lines 40-53
InitialStats ==
    [k \in {"cpu", "gpu", "ram", "fps", "game", "appid", "game_official_name",
            "player_count", "player_peak_24h", "timestamp", "last_update"} |->
        IF k \in {"appid", "game_official_name", "player_count", "player_peak_24h",
                  "last_update"}
        THEN NoneStr ELSE "<value>"]

\* d[key] = value
SetItem(d, key, value) == [k \in DOMAIN d \cup {key} |-> IF k = key THEN value ELSE d[k]]

\* lines 1691, 1727 and 1822: `appid and appid != 'null' and appid is not None`
AppidGiven(appid) == appid \notin {NoneStr, "", "null"}

\* what the Steam store answers to appdetails (lines 1706-1720): a name, an
\* answer without a name (status, success flag or name missing), or the
\* request raises
NameOutcomes == {"name", "empty", "raise"}

OfficialName(appid) == IF appid = "10" THEN "Official Alpha" ELSE "Official Beta"

\* what GetNumberOfCurrentPlayers answers (lines 1743-1751), and what
\* SteamCharts answers (lines 1754-1773)
CountOutcomes == {"many", "none", "raise"}
ChartOutcomes == {"peak", "raise"}

\* lines 1748-1751
CurrentPlayers(count) ==
    IF count = "many" THEN "1500" ELSE NoneStr

\* lines 1757-1773: the peak of the chart, or on an exception the estimate
\* int(current_players * 1.3) for a current count above 1000
Peak24h(count, chart) ==
    CASE chart = "peak" -> "2000"
      [] chart = "raise" /\ count = "many" -> "1950"
      [] OTHER -> NoneStr

NoEntry == <<>>

\* lines 1699-1702 and 1735-1738: the entry of the appid is younger than the
\* duration
Fresh(cache, appid, current_time, duration) ==
    /\ cache[appid] # NoEntry
    /\ current_time - cache[appid][1].time < duration

InitServer ==
    /\ srv_now = 0
    /\ srv_ticks = 0
    /\ srv_posts = 0
    /\ latest_stats = InitialStats
    /\ post_pc = "idle"
    /\ game_name_cache = [a \in Appids |-> NoEntry]
    /\ player_count_cache = [a \in Appids |-> NoEntry]
    /\ name_requests = <<>>
    /\ player_requests = <<>>
    /\ get_response = <<>>

\* time passes on the server
ServerClock ==
    /\ srv_ticks < MaxSrvTicks
    /\ \E d \in ClockSteps : srv_now' = srv_now + d
    /\ srv_ticks' = srv_ticks + 1
    /\ UNCHANGED <<srv_posts, latest_stats, post_pc, game_name_cache, player_count_cache,
                   name_requests, player_requests, get_response, exceptServer>>

\* lines 1815-1817: a snapshot of the sender arrives and replaces the dict
ReceiveStatsBegins ==
    /\ post_pc = "idle"
    /\ srv_posts < MaxPosts
    /\ srv_posts' = srv_posts + 1
    /\ \E appid \in PostedAppids : latest_stats' = PostedStats(appid)
    /\ post_pc' = "stamp"
    /\ UNCHANGED <<srv_now, srv_ticks, game_name_cache, player_count_cache,
                   name_requests, player_requests, get_response, exceptServer>>

\* lines 1818-1822: the time of the update is added, the appid is looked at
ReceiveStatsStamps ==
    /\ post_pc = "stamp"
    /\ latest_stats' = SetItem(latest_stats, "last_update", "<time>")
    /\ post_pc' = IF AppidGiven(latest_stats["appid"]) THEN "name" ELSE "clear"
    /\ UNCHANGED <<srv_now, srv_ticks, srv_posts, game_name_cache, player_count_cache,
                   name_requests, player_requests, get_response, exceptServer>>

\* lines 1832-1836: no appid, the three keys are set to None
ReceiveStatsClears ==
    /\ post_pc = "clear"
    /\ latest_stats' = SetItem(SetItem(SetItem(latest_stats,
                            "game_official_name", NoneStr),
                            "player_count", NoneStr),
                            "player_peak_24h", NoneStr)
    /\ post_pc' = "idle"
    /\ UNCHANGED <<srv_now, srv_ticks, srv_posts, game_name_cache, player_count_cache,
                   name_requests, player_requests, get_response, exceptServer>>

\* lines 1688-1721: the name of the cache, or the answer of the store; only a
\* name is cached
get_game_name_from_steam(appid, outcome, official_name) ==
    LET current_time == srv_now
    IN  IF Fresh(game_name_cache, appid, current_time, GAME_NAME_CACHE_DURATION)
        THEN /\ official_name = game_name_cache[appid][1].name
             /\ UNCHANGED <<game_name_cache, name_requests>>
        ELSE /\ name_requests' = Append(name_requests,
                    [appid |-> appid, time |-> current_time, ok |-> outcome = "name"])
             /\ IF outcome = "name"
                THEN /\ game_name_cache' = [game_name_cache EXCEPT ![appid] =
                            <<[name |-> OfficialName(appid), time |-> current_time]>>]
                     /\ official_name = OfficialName(appid)
                ELSE /\ UNCHANGED game_name_cache
                     /\ official_name = NoneStr

\* lines 1823-1826: the official name is added when the lookup gave one
ReceiveStatsNames ==
    /\ post_pc = "name"
    /\ \E outcome \in NameOutcomes, official_name \in {NoneStr} \cup {OfficialName(a) : a \in Appids} :
          /\ get_game_name_from_steam(latest_stats["appid"], outcome, official_name)
          /\ latest_stats' = IF official_name # NoneStr
                             THEN SetItem(latest_stats, "game_official_name", official_name)
                             ELSE latest_stats
    /\ post_pc' = "players"
    /\ UNCHANGED <<srv_now, srv_ticks, srv_posts, player_count_cache, player_requests,
                   get_response, exceptServer>>

\* lines 1724-1788: the counts of the cache, or a round of requests; the
\* result is cached unless the first request raises (lines 1786-1788)
get_player_counts(appid, count, chart, players) ==
    LET current_time == srv_now
        fetched == [current |-> CurrentPlayers(count), peak_24h |-> Peak24h(count, chart)]
    IN  IF Fresh(player_count_cache, appid, current_time, PLAYER_COUNT_CACHE_DURATION)
        THEN /\ players = player_count_cache[appid][1].data
             /\ UNCHANGED <<player_count_cache, player_requests>>
        ELSE /\ player_requests' = Append(player_requests,
                    [appid |-> appid, time |-> current_time, raised |-> count = "raise"])
             /\ IF count = "raise"
                THEN /\ UNCHANGED player_count_cache
                     /\ players = [current |-> NoneStr, peak_24h |-> NoneStr]
                ELSE /\ player_count_cache' = [player_count_cache EXCEPT ![appid] =
                            <<[data |-> fetched, time |-> current_time]>>]
                     /\ players = fetched

PlayerResults ==
    [current : {"1500", NoneStr}, peak_24h : {"2000", "1950", NoneStr}]

\* lines 1828-1831 and 1836: the counts are added, the POST is answered
ReceiveStatsPlayers ==
    /\ post_pc = "players"
    /\ \E count \in CountOutcomes, chart \in ChartOutcomes, players \in PlayerResults :
          /\ get_player_counts(latest_stats["appid"], count, chart, players)
          /\ latest_stats' = SetItem(SetItem(latest_stats,
                                "player_count", players.current),
                                "player_peak_24h", players.peak_24h)
    /\ post_pc' = "idle"
    /\ UNCHANGED <<srv_now, srv_ticks, srv_posts, game_name_cache, name_requests,
                   get_response, exceptServer>>

\* lines 1845-1848: the dict as it is now is the response
get_stats ==
    /\ get_response' = <<DOMAIN latest_stats>>
    /\ UNCHANGED <<srv_now, srv_ticks, srv_posts, latest_stats, post_pc, game_name_cache,
                   player_count_cache, name_requests, player_requests, exceptServer>>

NextServer ==
    \/ ServerClock
    \/ ReceiveStatsBegins
    \/ ReceiveStatsStamps
    \/ ReceiveStatsClears
    \/ ReceiveStatsNames
    \/ ReceiveStatsPlayers
    \/ get_stats

(***************************************************************************)
(* The initial state and the specifications                                *)
(***************************************************************************)
Init ==
    /\ now = 1
    /\ InitDisk
    /\ InitPower
    /\ InitNet
    /\ InitGame
    /\ InitName
    /\ InitMain
    /\ InitGpu
    /\ InitServer

SpecDisk == Init /\ [][NextDisk]_vars

SpecPower == Init /\ [][NextPower]_vars

SpecNet == Init /\ [][NextNet]_vars

SpecGame == Init /\ [][NextGame]_vars

SpecName == Init /\ [][NextName]_vars

SpecMain == Init /\ [][NextMain]_vars

SpecGpu == Init /\ [][NextGpu]_vars
SpecGpuTable == Init /\ [][NextGpuTable]_vars
SpecGpuSection == Init /\ [][NextGpuSection]_vars

SpecServer == Init /\ [][NextServer]_vars

\* every sampler of collect_stats, and the loop of main: the samplers share
\* no state, and a behaviour follows the calls of one of them while the
\* others are as the import of the module left them (lines 22-36, 546-547)
AsImported ==
    [disk |-> InitDisk, power |-> InitPower, net |-> InitNet, game |-> InitGame,
     name |-> InitName, main |-> InitMain, gpu |-> InitGpu]

OthersAsImported(sampler) == \A k \in DOMAIN AsImported \ {sampler} : AsImported[k]

NextSamplers ==
    \/ OthersAsImported("disk") /\ NextDisk
    \/ OthersAsImported("power") /\ NextPower
    \/ OthersAsImported("net") /\ NextNet
    \/ OthersAsImported("game") /\ NextGame
    \/ OthersAsImported("name") /\ NextName
    \/ OthersAsImported("gpu") /\ NextGpu
    \/ OthersAsImported("main") /\ NextMain

SpecSamplers == Init /\ [][NextSamplers]_vars

\* time.sleep(UPDATE_INTERVAL) returns: the sleep of lines 945 and 952 ends
FairSpecMain == SpecMain /\ WF_vars(Sleep)

(***************************************************************************)
(* Claims about get_disk_stats                                             *)
(***************************************************************************)
\* the used bytes the contributions recorded so far added to disk `dname`
RECURSIVE ContribTo(_, _)
ContribTo(c, dname) ==
    IF c = <<>> THEN 0
    ELSE (IF Head(c).disk = dname THEN Head(c).used ELSE 0) + ContribTo(Tail(c), dname)

\* the listing of the end-to-end example: sda (100 GB) with sda1 listed at /
\* and at /mnt/bind
BindMountListing ==
    <<[rawname |-> N_sda, size |-> 100 * GiB, type |-> "disk", mount |-> ""],
      [rawname |-> <<BoxVertRight, BoxHoriz>> \o N_sda1, size |-> 50 * GiB,
       type |-> "part", mount |-> "/"],
      [rawname |-> <<BoxUpRight, BoxHoriz>> \o N_sda1, size |-> 50 * GiB,
       type |-> "part", mount |-> "/mnt/bind"]>>

\* C1: within one call of get_disk_stats a partition device name adds its
\* used bytes at most once (hence to at most one disk), whatever the listing
\* and the df outcomes; every disk's used_bytes is exactly the sum of those
\* additions; and the bind-mount example (sda1 at / and /mnt/bind, df
\* reporting 10 GB) ends with the single entry sda, used_gb = 10.0.
C1_PartitionCountedOnce ==
    /\ \A i, j \in DOMAIN contrib : contrib[i].part = contrib[j].part => i = j
    /\ \A k \in DOMAIN physical_disks :
          physical_disks[k].used_bytes = ContribTo(contrib, physical_disks[k].name)
    /\ (dk_pc = "done" /\ lines = BindMountListing
            /\ \A k \in DOMAIN df_log : df_log[k].out = 10 * GiB)
        => /\ Len(disks_result) = 1
           /\ disks_result[1].name = N_sda
           /\ disks_result[1].used_gb = 100

\* C1 witness: the bind-mount example ran to its end: one df query, one
\* contribution of sda1, used_gb = 10.0
C1_Witness ==
    /\ dk_pc = "done"
    /\ lines = BindMountListing
    /\ Len(df_log) = 1
    /\ contrib = <<[part |-> N_sda1, disk |-> N_sda, used |-> 10 * GiB]>>
    /\ disks_result[1].used_gb = 100

\* a listing made of disk records and their partition records only
OnlyDisksAndParts(ls) ==
    \A i \in DOMAIN ls :
        /\ ls[i].type \in {"disk", "part"}
        /\ \A k \in DOMAIN ls[i].rawname : ls[i].rawname[k] # " "

\* the disk-typed records of a listing that are no zram or swap device
IsListedDisk(l) ==
    /\ l.type = "disk"
    /\ ~(\E n \in 1..Len(l.rawname) : SubSeq(l.rawname, 1, n) \in {Zram, Swap})

\* the place where a device name first appears in the listing
FirstLine(ls, name) ==
    CHOOSE i \in DOMAIN ls :
        /\ ls[i].rawname = name
        /\ \A j \in 1..(i - 1) : ls[j].rawname # name

DiskStatsFields == {"device", "name", "total_gb", "used_gb", "percent"}

\* C10: for a listing of disk and partition records the returned list has
\* exactly one entry per listed disk name that is neither zram nor swap, in
\* the order of first appearance, each with exactly the five output fields,
\* and no entry for a partition.
C10_OneEntryPerDisk ==
    (dk_pc = "done" /\ OnlyDisksAndParts(lines)) =>
        /\ {disks_result[i].name : i \in DOMAIN disks_result}
              = {l.rawname : l \in {lines[i] : i \in {k \in DOMAIN lines : IsListedDisk(lines[k])}}}
        /\ \A i, j \in DOMAIN disks_result :
              i < j => FirstLine(lines, disks_result[i].name) < FirstLine(lines, disks_result[j].name)
        /\ \A i \in DOMAIN disks_result :
              /\ DOMAIN disks_result[i] = DiskStatsFields
              /\ disks_result[i].device = DevicePrefix \o disks_result[i].name
              /\ \A k \in DOMAIN lines :
                    lines[k].type = "part" => DeviceName(Parts(lines[k])[1]) # disks_result[i].name

\* C10 witness: a listing with a zram device, two disks (sdb listed before
\* sda) and a mounted partition returned exactly <<sdb, sda>>
C10_Witness ==
    /\ dk_pc = "done"
    /\ Len(lines) = 3
    /\ lines[1].rawname = N_zram0
    /\ lines[2].rawname = N_sdb
    /\ lines[3].rawname = N_sda
    /\ Len(disks_result) = 2
    /\ disks_result[1].name = N_sdb
    /\ disks_result[2].name = N_sda

\* C14: the parent a mounted partition's used bytes are added to is the disk
\* with the longest name among the disks whose name is a prefix of the
\* partition name with a remainder starting with a digit or 'p', whatever the
\* order of the listing.
C14_LongestParent ==
    \A i \in DOMAIN contrib :
        \A k \in DOMAIN physical_disks :
            ParentMatches(contrib[i].part, physical_disks[k].name)
                => Len(physical_disks[k].name) <= Len(contrib[i].disk)

\* C15: a record nested more than one level, whose tree prefix holds a space,
\* is read like any other record and never makes the call drop the disks it
\* discovered: every listed disk that is no zram or swap device has an entry
\* in the result.
C15_NestedRecordKeepsDisks ==
    dk_pc = "done" =>
        \A i \in DOMAIN lines :
            IsListedDisk(lines[i]) =>
                \E k \in DOMAIN disks_result : disks_result[k].name = lines[i].rawname

\* C16: a partition is marked as seen after its free space was queried and
\* its used bytes were added: a partition in partitions_seen has a recorded
\* addition, and a mount point whose partition has no addition yet is queried.
C16_SeenOnlyIfAdded ==
    \A k \in DOMAIN physical_disks :
        \A name \in physical_disks[k].partitions_seen :
            \E i \in DOMAIN contrib : contrib[i].part = name

(***************************************************************************)
(* Claims about get_cpu_power                                              *)
(***************************************************************************)
Abs(x) == IF x >= 0 THEN x ELSE -x

\* a call that read the counter as (e2, t2) with a stored (e1, t1), t2 > t1
TwoOrderedReads ==
    /\ power_call.kind = "zenergy"
    /\ power_call.prev_e # <<>>
    /\ power_call.prev_t # <<>>
    /\ power_call.t_read > power_call.prev_t[1]

\* C3: for consecutive reads (e1,t1), (e2,t2) with t2 > t1 the reported power
\* is (e2-e1)/1e6/(t2-t1) rounded to one decimal when that value lies strictly
\* inside (0,500) and 0.0 otherwise, and the stored sample is (e2,t2) either
\* way.
C3_PowerFromDelta ==
    TwoOrderedReads =>
        LET de == power_call.e_read - power_call.prev_e[1]
            dt == power_call.t_read - power_call.prev_t[1]
            inside == de > 0 /\ (de \div 1000000) < 500 * dt
        IN  /\ inside => 2 * Abs(power_call.ret * 100000 * dt - de) <= 100000 * dt
            /\ ~inside => power_call.ret = 0
            /\ last_cpu_energy = <<power_call.e_read>>
            /\ last_cpu_energy_time = <<power_call.t_read>>

\* C3 witness: a rejected value (620 J in one second) reported as 0.0 with
\* the new sample stored
C3_Witness ==
    /\ TwoOrderedReads
    /\ power_call.e_read - power_call.prev_e[1] = 620000000
    /\ power_call.t_read - power_call.prev_t[1] = 1
    /\ power_call.ret = 0
    /\ last_cpu_energy = <<power_call.e_read>>
    /\ last_cpu_energy_time = <<power_call.t_read>>

\* C4 (as claimed): after every call that read the energy counter the stored
\* pair is the pair just read, whatever the call returned, also when the
\* time delta to the previous sample is zero; the first such call returns
\* 0.0.
C4_StoredIsLastRead ==
    power_call.kind \in {"zenergy", "zerodiv"} =>
        /\ last_cpu_energy = <<power_call.e_read>>
        /\ last_cpu_energy_time = <<power_call.t_read>>
        /\ power_call.prev_e = <<>> => power_call.ret = 0

(***************************************************************************)
(* Claims about get_network_stats                                          *)
(***************************************************************************)
\* a successful call that found the sample of an earlier successful call,
\* taken a positive time before
TwoOrderedSamples ==
    /\ net_call.kind = "ok"
    /\ net_call.prev # <<>>
    /\ net_call.prev_time # <<>>
    /\ net_call.time > net_call.prev_time[1]

\* C5: in every result of get_network_stats the download and upload speeds
\* are non-negative, a counter that decreased between two samples yields 0,
\* and the first call of the process yields 0 for both directions.
C5_SpeedsNonNegative ==
    net_call.kind \in {"ok", "fail"} =>
        /\ net_call.result.download_speed >= 0
        /\ net_call.result.upload_speed >= 0
        /\ net_call.first =>
              net_call.result.download_speed = 0 /\ net_call.result.upload_speed = 0
        /\ (TwoOrderedSamples /\ net_call.result.bytes_recv < net_call.prev[1].bytes_recv)
              => net_call.result.download_speed = 0
        /\ (TwoOrderedSamples /\ net_call.result.bytes_sent < net_call.prev[1].bytes_sent)
              => net_call.result.upload_speed = 0

\* C5 witness: the received-byte counter fell by 5 MiB within a second and
\* the call reported a download speed of 0
C5_Witness ==
    /\ TwoOrderedSamples
    /\ net_call.time - net_call.prev_time[1] = 1
    /\ net_call.prev[1].bytes_recv - net_call.result.bytes_recv >= 5 * BytesPerMiB
    /\ net_call.result.download_speed = 0

\* C6 (as claimed): for two consecutive successful samples dt > 0 apart the
\* reported throughput of each direction equals max(0, delta/dt/1048576)
\* exactly.
C6_RateExact ==
    TwoOrderedSamples =>
        LET dt == net_call.time - net_call.prev_time[1]
            down == net_call.result.bytes_recv - net_call.prev[1].bytes_recv
            up == net_call.result.bytes_sent - net_call.prev[1].bytes_sent
        IN  /\ net_call.result.download_speed * dt * BytesPerMiB = 100 * Max(0, down)
            /\ net_call.result.upload_speed * dt * BytesPerMiB = 100 * Max(0, up)

\* the value h (in hundredths) is x/y rounded to two decimals, floored at 0
IsRoundedRate(h, x, y) ==
    IF x <= 0 THEN h = 0
    ELSE h >= 0 /\ 2 * Abs(h * y - 100 * x) <= y

\* C6 (amended): for two consecutive successful samples dt > 0 apart the
\* reported throughput of each direction is max(0, delta/dt/1048576) rounded
\* to two decimals (recv 1000 then 2000 one second apart reports 0.0).
C6_RateRounded ==
    TwoOrderedSamples =>
        LET dt == net_call.time - net_call.prev_time[1]
            down == net_call.result.bytes_recv - net_call.prev[1].bytes_recv
            up == net_call.result.bytes_sent - net_call.prev[1].bytes_sent
        IN  /\ IsRoundedRate(net_call.result.download_speed, down, dt * BytesPerMiB)
            /\ IsRoundedRate(net_call.result.upload_speed, up, dt * BytesPerMiB)
            /\ (dt = 1 /\ down = 1000) => net_call.result.download_speed = 0

\* C6 witness: the example of the claim, counters (recv 1000, sent 500) then
\* (recv 2000, sent 1500) one second apart, reported as 0.00 MB/s
C6_Witness ==
    /\ TwoOrderedSamples
    /\ net_call.time - net_call.prev_time[1] = 1
    /\ net_call.prev[1] = [bytes_sent |-> 500, bytes_recv |-> 1000]
    /\ net_call.result.bytes_recv = 2000
    /\ net_call.result.bytes_sent = 1500
    /\ net_call.result.download_speed = 0
    /\ net_call.result.upload_speed = 0

\* the rows of a pass that are no loopback and have non-zero traffic
TrafficRows(rows) ==
    {i \in DOMAIN rows : rows[i].iface # If_lo /\ rows[i].recv + rows[i].sent > 0}

\* C17: the interface reported is, among the non-loopback interfaces with
\* non-zero traffic in the pass, the one with the largest sent+received byte
\* count, and it is null exactly when there is no such interface.
C17_MostActiveInterface ==
    net_call.kind = "ok" =>
        LET rows == net_call.rows
            cand == TrafficRows(rows)
        IN  IF cand = {}
            THEN net_call.result.interface = NoInterface
            ELSE \E i \in cand :
                    /\ net_call.result.interface = rows[i].iface
                    /\ \A j \in cand :
                          rows[j].recv + rows[j].sent <= rows[i].recv + rows[i].sent

(***************************************************************************)
(* Claims about get_current_game                                           *)
(***************************************************************************)
\* the last call found nothing by methods 1 to 4, after a detection by
\* method 1 or 2
AllMethodsFailedAfterDetection ==
    /\ game_call.kind \in {"cache", "default"}
    /\ last_detect # <<>>

\* C2 (as claimed): when methods 1-4 all fail on a tick less than
\* GAME_CACHE_DURATION after the last detection by method 1 or 2, the result
\* is exactly the detected {name, appid}; when they fail on a tick at or past
\* the TTL, the result is {"Desktop", None}.
C2_CacheDebounce ==
    AllMethodsFailedAfterDetection =>
        IF game_call.time - last_detect[1].time < 5
        THEN game_call.result = [name |-> last_detect[1].name, appid |-> last_detect[1].appid]
        ELSE game_call.result = [name |-> "Desktop", appid |-> NoneStr]

(***************************************************************************)
(* Claims about get_cpu_name and get_gpu_name                              *)
(***************************************************************************)
\* C7: get_cpu_name and get_gpu_name each read their source at most once per
\* process, and every call after the first resolution returns the string the
\* first resolution produced, the empty string included.
C7_ReadOnceAndStable ==
    /\ cpu_reads <= 1
    /\ gpu_reads <= 1
    /\ (name_call.fn = "cpu" /\ cpu_first # <<>>) => name_call.result = cpu_first[1]
    /\ (name_call.fn = "gpu" /\ gpu_first # <<>>) => name_call.result = gpu_first[1]

\* C12: when the first resolution of the CPU (GPU) name fails to read or find
\* the model, the call returns "Unknown CPU" ("Unknown GPU") and stores it, no
\* later call reads the source again and every later call returns it.
C12_UnknownMemoised ==
    /\ (name_call.fn = "cpu" /\ name_call.failed) =>
          /\ name_call.result = Unknown_CPU
          /\ cached_cpu_name = <<Unknown_CPU>>
    /\ (name_call.fn = "gpu" /\ name_call.failed) =>
          /\ name_call.result = Unknown_GPU
          /\ cached_gpu_name = <<Unknown_GPU>>
    /\ cpu_first = <<Unknown_CPU>> =>
          /\ cpu_reads = 1
          /\ cached_cpu_name = <<Unknown_CPU>>
          /\ name_call.fn = "cpu" => name_call.result = Unknown_CPU
    /\ gpu_first = <<Unknown_GPU>> =>
          /\ gpu_reads = 1
          /\ cached_gpu_name = <<Unknown_GPU>>
          /\ name_call.fn = "gpu" => name_call.result = Unknown_GPU

\* both first resolutions failed, and a later call of get_gpu_name was served
\* from the memo
C12_Witness ==
    /\ cpu_first = <<Unknown_CPU>>
    /\ gpu_first = <<Unknown_GPU>>
    /\ name_call = [fn |-> "gpu", read |-> FALSE, failed |-> FALSE, input |-> <<>>,
                    result |-> Unknown_GPU]

(***************************************************************************)
(* Claims about collect_stats and main                                     *)
(***************************************************************************)
\* the fields the sampler with key k returns when its probes succeed
FullFields(k) ==
    LET i == CHOOSE j \in 1..Len(Samplers) : Samplers[j].key = k
    IN  Samplers[i].ok

\* C8: every snapshot collect_stats returns is complete: whatever probes
\* failed, each sampler's result has its full set of fields.
C8_CompleteSnapshot ==
    main_pc = "send" => \A k \in SamplerKeys : snapshot[k] = FullFields(k)

\* C9: a KeyboardInterrupt delivered while a sampler of a tick runs
\* terminates the main loop, and the snapshot of that tick is not transmitted.
C9_InterruptStopsTick ==
    (interrupt # NoInterrupt /\ interrupt[1].phase = "collect") =>
        /\ main_pc = "stopped"
        /\ interrupt[1].tick \notin transmitted

(***************************************************************************)
(* Claims about get_gpu_stats                                              *)
(***************************************************************************)
\* the backends the fields of a result were read from
BackendsOf(result) == {result[f] : f \in GpuStatsFields} \ {"default"}

\* C11: the fields of every result of get_gpu_stats come from at most one
\* vendor backend, and nvidia-smi is queried only when the hwmon listing has
\* no amdgpu entry.
C11_OneBackend ==
    gpu_call.branch # "none" =>
    /\ Cardinality(BackendsOf(gpu_call.result)) <= 1
    /\ gpu_call.nvidia_queried =>
         \A i \in 1..Len(gpu_call.hwmon) : gpu_call.hwmon[i] # "amdgpu"

\* an amdgpu branch that set some fields and then failed part-way
C11_Witness ==
    /\ gpu_call.branch = "amd"
    /\ gpu_call.result["usage"] = "amd"
    /\ gpu_call.result["vram_total"] = "default"
    /\ BackendsOf(gpu_call.result) = {"amd"}

\* a step in which send_stats returns False (lines 911-912, 941-944)
FailedSendStep ==
    /\ main_pc = "send"
    /\ consecutive_failures' = consecutive_failures + 1

\* C13: a failed delivery is not retried within the tick and does not stop the
\* loop: the step of a failed send goes to the sleep of line 945, a send is
\* only entered from collect_stats, the sleep ends in the collect of the next
\* tick or in an interrupt, and the sleep after a failed send is eventually
\* followed by the next tick's collect unless an interrupt stops the loop.
C13_FailedSendGoesOn ==
    /\ [][/\ FailedSendStep => (main_pc' = "sleep" /\ tick' = tick /\ transmitted' = transmitted)
          /\ main_pc' = "send" => (main_pc = "collect" /\ tick' = tick)
          /\ (main_pc = "sleep" /\ main_pc' # "sleep") =>
                \/ main_pc' = "collect" /\ tick' = tick + 1 /\ stage' = 1
                \/ main_pc' = "stopped" /\ interrupt' # interrupt]_vars
    /\ \A t \in 1..(MaxTicks - 1) :
         (main_pc = "sleep" /\ tick = t /\ consecutive_failures > 0)
            ~> ((main_pc = "collect" /\ tick = t + 1) \/ main_pc = "stopped")

\* the tick after a failed send is being collected
C13_Witness ==
    /\ main_pc = "collect"
    /\ tick > 1
    /\ consecutive_failures > 0
    /\ stage > 1

\* the first method, in the order manifest scan, launcher scan, compositor,
\* game mode, that the signals of the last call let succeed
FirstSuccess_InOrder ==
    LET sig == game_call.signals
    IN  IF sig.m1 # <<>> THEN "m1"
        ELSE IF sig.m2 # <<>> THEN "m2"
        ELSE IF sig.m3 THEN "m3"
        ELSE IF sig.m4 THEN "m4"
        ELSE "fallback"

\* the cache holds the detection g, written during the last call
CacheHolds(g) ==
    /\ cached_game_name = g.name
    /\ cached_game_appid = g.appid
    /\ cached_game_time >= game_call.time
    /\ cached_game_time = now

\* C18: the methods are applied in the order manifest scan, launcher scan,
\* compositor, game mode, cache, default, and the call returns the result of
\* the first that succeeds: a detection of method 1 or 2 is returned as it is
\* and written to the cache with the current time whatever the cache held,
\* and the name and appid returned always come from the same method.
C18_FirstSuccessWins ==
    game_call.kind \notin {"none", "running"} =>
        LET sig == game_call.signals
            r == game_call.result
            cached == [name |-> game_call.pre_name, appid |-> game_call.pre_appid]
        IN  /\ game_call.kind = (IF FirstSuccess_InOrder = "fallback"
                                 THEN game_call.kind ELSE FirstSuccess_InOrder)
            /\ game_call.kind = "m1" => (r = sig.m1[1] /\ CacheHolds(r))
            /\ game_call.kind = "m2" => (r = sig.m2[1] /\ CacheHolds(r))
            /\ game_call.kind = "m3" => r \in {cached, [name |-> "SteamOS", appid |-> NoneStr]}
            /\ game_call.kind = "m4" => r \in {cached, [name |-> "Gaming (Active)", appid |-> NoneStr]}
            /\ game_call.kind \in {"cache", "default"} =>
                  /\ sig = NoSignals
                  /\ r \in {cached, DesktopInfo}

\* method 1 succeeded while method 2, gamescope and gamemoded would have too
\* and the cache held a different title younger than the TTL
C18_Witness ==
    /\ game_call.kind = "m1"
    /\ game_call.signals.m2 # <<>>
    /\ game_call.signals.m3
    /\ game_call.signals.m4
    /\ game_call.pre_name = "Beta"
    /\ game_call.time - game_call.pre_time < GAME_CACHE_DURATION
    /\ game_call.result.name = "Alpha"
    /\ cached_game_name = "Alpha"

\* the generic label of a weak signal
WeakLabel(kind) == IF kind = "m3" THEN "SteamOS" ELSE "Gaming (Active)"

\* C19: methods 3 and 4 leave the cache (name, appid, time) as it was, and
\* after a strong detection they return the detected {name, appid} while less
\* than the TTL has passed since the detection and the generic label with a
\* null appid from then on.
C19_WeakSignalUsesCache ==
    (game_call.kind \in {"m3", "m4"} /\ last_detect # <<>>) =>
        /\ cached_game_name = game_call.pre_name
        /\ cached_game_appid = game_call.pre_appid
        /\ cached_game_time = game_call.pre_time
        /\ IF game_call.time - last_detect[1].time < GAME_CACHE_DURATION
           THEN game_call.result = [name |-> last_detect[1].name, appid |-> last_detect[1].appid]
           ELSE game_call.result = [name |-> WeakLabel(game_call.kind), appid |-> NoneStr]

Idle == <<>>
Detected(name, id) == <<name, id>>

\* the state of the machine that the three cache fields stand for at time t:
\* Detected(name, id) when the cached name is set and its age is below the
\* TTL, Idle otherwise
GameMachine(name, appid, cached_time, t) ==
    IF name # NoneStr /\ (t - cached_time) < GAME_CACHE_DURATION
    THEN Detected(name, appid)
    ELSE Idle

\* C21: with the cache fields mapped to Idle / Detected(name, id), every call
\* of get_current_game is a step Idle->Detected (a detection), a step
\* Detected->Detected (a refresh by a detection, or the same state within the
\* TTL), a step Detected->Idle (the age reached the TTL) or leaves Idle as it
\* is, and a call whose probes all fail returns the title and id of Detected
\* and "Desktop" in Idle.
C21_RefinesIdleDetected ==
    [][LET a == GameMachine(cached_game_name, cached_game_appid, cached_game_time, now)
           b == GameMachine(cached_game_name', cached_game_appid', cached_game_time', now')
           call == game_call'
           detected == /\ call.kind \in {"m1", "m2"}
                       /\ b = Detected(call.result.name, call.result.appid)
       IN  /\ (a = Idle /\ b # Idle) => detected
           /\ (a # Idle /\ b # Idle) => (detected \/ b = a)
           /\ (a # Idle /\ b = Idle) => (now' - cached_game_time) >= GAME_CACHE_DURATION
           /\ call.kind \in {"cache", "default"} =>
                 call.result = (IF b # Idle
                                THEN [name |-> b[1], appid |-> b[2]]
                                ELSE DesktopInfo)]_vars

\* the rate the last call computes from the stored sample it found
RateFromPrev(cur_bytes, field) ==
    IF net_call.prev # <<>> /\ Truthy(net_call.prev_time)
    THEN Speed(cur_bytes, net_call.prev[1][field], net_call.time - net_call.prev_time[1])
    ELSE 0

\* the results the last call has with a latency probe that succeeds, over the
\* outcomes of its link probe
ResultsWithPing ==
    LET pass == NetPass(net_call.rows, NetPassStart)
    IN  {CurrentStats(pass, LinkInfo(pass.active, probe, probe), Latency(ping),
                      RateFromPrev(pass.bytes_recv, "bytes_recv"),
                      RateFromPrev(pass.bytes_sent, "bytes_sent")) :
            probe \in LinkProbes(pass.active),
            ping \in {p \in PingOutcomes : p.kind = "ok"}}

\* C22: a call of get_network_stats whose latency probe fails (it raises,
\* exits non-zero or prints nothing parsable) returns latency_ms = None with
\* every other field as in the result of the same call with a successful
\* probe, and stores the byte counters it read with the time of the call.
C22_LatencyFailureIsLocal ==
    net_call.ping = "failed" =>
        /\ net_call.kind = "ok"
        /\ net_call.result.latency_ms = <<>>
        /\ \E good \in ResultsWithPing :
              /\ good.latency_ms # <<>>
              /\ net_call.result = [good EXCEPT !.latency_ms = <<>>]
        /\ last_net_stats = <<[bytes_sent |-> net_call.result.bytes_sent,
                               bytes_recv |-> net_call.result.bytes_recv]>>
        /\ last_net_time = <<net_call.time>>

\* the probe failed in a call that found a stored sample, measured a rate and
\* read a WiFi link speed
C22_Witness ==
    /\ net_call.ping = "failed"
    /\ net_call.prev # <<>>
    /\ net_call.result.download_speed > 0
    /\ net_call.result.link_type = "WiFi"
    /\ net_call.result.link_speed_mbps # <<>>
    /\ net_call.result.latency_ms = <<>>
    /\ last_net_stats # net_call.prev

\* C23: in every result of get_network_stats link_type is None exactly when
\* interface is None, it is "WiFi" exactly when the interface name starts
\* with "wl" and "Ethernet" for every other interface, and link_speed_mbps
\* is None or positive and is not None only when link_type is not None.
C23_LinkClassification ==
    net_call.kind \in {"ok", "fail"} =>
        LET r == net_call.result
        IN  /\ (r.link_type = NoneStr) <=> (r.interface = NoInterface)
            /\ (r.link_type = "WiFi") <=>
                  (r.interface # NoInterface /\ StartsWith(r.interface, <<"w", "l">>))
            /\ (r.interface # NoInterface /\ ~StartsWith(r.interface, <<"w", "l">>))
                  => r.link_type = "Ethernet"
            /\ r.link_type \in {NoneStr, "WiFi", "Ethernet"}
            /\ r.link_speed_mbps # <<>> => (r.link_speed_mbps[1] > 0 /\ r.link_type # NoneStr)

\* an interface named wlp2s0 was classified, with a link speed
C23_Witness ==
    /\ net_call.kind = "ok"
    /\ net_call.result.interface = If_wlp2s0
    /\ net_call.result.link_type = "WiFi"
    /\ net_call.result.link_speed_mbps # <<>>

\* an Ethernet interface whose speed attribute reads -1
C23_WitnessNoSpeed ==
    /\ net_call.kind = "ok"
    /\ net_call.result.link_type = "Ethernet"
    /\ net_call.result.link_speed_mbps = <<>>

\* the last call of get_gpu_stats found no amdgpu entry and its nvidia-smi
\* could not be run, timed out or exited non-zero
NoGpuBackend ==
    /\ gpu_call.branch = "nvidia"
    /\ \A i \in 1..Len(gpu_call.hwmon) : gpu_call.hwmon[i] # "amdgpu"
    /\ gpu_call.nvidia \in {"raise", "nonzero"}

\* C24: when no amdgpu sensor is present and nvidia-smi is missing, times out
\* or exits non-zero, get_gpu_stats returns its six fields at the defaults of
\* line 275, and the "gpu" entry of the snapshot holds these six defaults
\* with the name get_gpu_name returned, which is the memoised name.
C24_GpuDefaultsKeepName ==
    NoGpuBackend =>
        /\ gpu_call.result = GpuDefaultStats
        /\ gpu_section # NoGpuSection =>
              /\ DOMAIN gpu_section[1] = GpuStatsFields \cup {"name"}
              /\ \A f \in GpuStatsFields : gpu_section[1][f] = "default"
              /\ gpu_section[1]["name"] = name_call.result
              /\ gpu_section[1]["name"] = cached_gpu_name[1]

\* the entry was built after a failed nvidia-smi with a name resolved from lspci
C24_Witness ==
    /\ NoGpuBackend
    /\ gpu_call.nvidia = "nonzero"
    /\ gpu_call.hwmon = <<"other", "noname">>
    /\ gpu_section # NoGpuSection
    /\ name_call.read /\ ~name_call.failed
    /\ gpu_section[1]["name"] = GpuResolution([kind |-> "ok", out |-> <<L_bridge, L_ga102>>])

\* the rows of the codename table whose codename occurs in the name s
ChipsIn(s) == {i \in 1..Len(AmdMap) : Contains(s, AmdMap[i].chip)}

C25_WitnessUnlisted ==
    /\ name_call.fn = "gpu"
    /\ name_call.read
    /\ ChipsIn(name_call.input) = {}
    /\ name_call.result = <<"00.0", "VGA", "compatible", "controller:", "AMD", "Navi", "24", "XT">>

\* the cross-tick state of the samplers (lines 22-36 and 546-547)
EnergySample == <<last_cpu_energy, last_cpu_energy_time>>
ByteSample == <<last_net_stats, last_net_time>>
GameCache == <<cached_game_name, cached_game_time, cached_game_appid>>

C27_FailureKeepsSample ==
    /\ (net_call.kind = "fail" /\ net_call.ping = "none") =>
          /\ net_call.result.download_speed = 0
          /\ net_call.result.upload_speed = 0
          /\ last_net_stats = net_call.prev
          /\ last_net_time = net_call.prev_time
    /\ (net_call.kind = "ok" /\ net_call.after_fail /\ net_call.prev_ok # <<>>) =>
          LET ok == net_call.prev_ok[1]
              elapsed == net_call.time - ok.time
          IN  elapsed > 0 =>
                /\ net_call.result.download_speed =
                      Max(0, RoundHalfEven((net_call.result.bytes_recv - ok.bytes_recv) * 100,
                                           elapsed * BytesPerMiB))
                /\ net_call.result.upload_speed =
                      Max(0, RoundHalfEven((net_call.result.bytes_sent - ok.bytes_sent) * 100,
                                           elapsed * BytesPerMiB))

\* a call succeeded three seconds after the last successful one, with a
\* failed call between them, and reported 5 MiB over 3 s as 1.67 MB/s
C27_Witness ==
    /\ net_call.kind = "ok"
    /\ net_call.after_fail
    /\ net_call.prev_ok # <<>>
    /\ net_call.time - net_call.prev_ok[1].time = 3
    /\ net_call.result.bytes_recv - net_call.prev_ok[1].bytes_recv = 5 * BytesPerMiB
    /\ net_call.result.download_speed = 167

(***************************************************************************)
(* Claims about the display server                                         *)
(***************************************************************************)

\* the keys the page reads besides the sampled ones
EnrichedKeys == {"last_update", "game_official_name", "player_count", "player_peak_24h"}

\* C28: every response of GET /api/stats holds the keys last_update,
\* game_official_name, player_count and player_peak_24h, whatever POSTs came
\* before and also while a POST is being enriched
C28_ResponseHasEnrichedKeys ==
    get_response # <<>> => EnrichedKeys \subseteq get_response[1]

(***************************************************************************)
(* Claims about send_stats                                                 *)
(***************************************************************************)

\* C29: send_stats returns True only if the display server answered the POST
\* with a success status, and a POST answered with status 400 is reported as
\* a failure and counted in consecutive_failures
C29_TrueOnlyOnSuccess ==
    /\ send_call.returned = "True" => send_call.status = "200"
    /\ (send_call.status = "400" /\ send_call.tick = tick /\ main_pc = "sleep")
           => (send_call.returned = "False" /\ consecutive_failures > 0)

(***************************************************************************)
(* Claims about the caches of the display server                           *)
(***************************************************************************)

\* the upstream requests of a log made for one appid, as pairs of positions
\* i < j of the log
LaterRequests(log) ==
    {p \in (1..Len(log)) \X (1..Len(log)) : p[1] < p[2] /\ log[p[1]].appid = log[p[2]].appid}

\* the store is not asked for an appid during the 3600 seconds after a
\* successful lookup of that appid
NameCacheHolds ==
    \A p \in LaterRequests(name_requests) :
        name_requests[p[1]].ok
            => name_requests[p[2]].time - name_requests[p[1]].time >= GAME_NAME_CACHE_DURATION

\* a lookup that gave no name leaves no fresh entry behind
NameFailureNotCached ==
    \A a \in Appids :
        Fresh(game_name_cache, a, srv_now, GAME_NAME_CACHE_DURATION)
            => \E i \in 1..Len(name_requests) :
                   /\ name_requests[i].appid = a
                   /\ name_requests[i].ok
                   /\ name_requests[i].time = game_name_cache[a][1].time

\* two rounds of player-count requests for one appid are 60 seconds apart
PlayerRoundsApart ==
    \A p \in LaterRequests(player_requests) :
        player_requests[p[2]].time - player_requests[p[1]].time >= PLAYER_COUNT_CACHE_DURATION

\* C30: no name request for an appid during the 3600 seconds after a
\* successful lookup, a failed or empty lookup is not cached, and at most one
\* round of player-count requests per appid per 60 seconds
C30_CachesLimitRequests ==
    /\ NameCacheHolds
    /\ NameFailureNotCached
    /\ PlayerRoundsApart

====
